---- MODULE Spec2Model ----
(***************************************************************************)
(* Calendar page of the productivity application: anchors, do-not-disturb  *)
(* windows, smart reminders, the conflict dialog of drag-and-drop and the  *)
(* change history with its undo callbacks.                                 *)
(*                                                                         *)
(* A time string "HH:MM" is the sequence of its characters; the empty     *)
(* string is <<>>.  Timestamps (Date values and ISO strings) are minutes   *)
(* counted from a Monday 00:00; NoTime stands for null.  Anchor and        *)
(* reminder ids are positive integers; NoId stands for undefined.          *)
(*                                                                         *)
(* Time analytics: the completion history kept in localStorage, with the   *)
(* copy of it in the application state, and the personalised estimate.     *)
(***************************************************************************)
EXTENDS Integers, Sequences, FiniteSets, TLC

VARIABLES
    scheduleEvents,   \* anchors, in array order
    dndWindows,       \* do-not-disturb windows, in array order
    smartReminders,   \* reminders, in array order
    pauseUntil,       \* global pause timestamp or NoTime
    conflict,         \* pending conflict of the drag-and-drop dialog
    changeHistory,    \* recorded changes with their undo snapshots, newest first
    activeReminders,  \* memoised list of the reminder engine
    renderedAt,       \* clock value at which activeReminders was computed
    now,              \* wall clock, in minutes
    nextId,           \* source of fresh ids (Date.now() in the code)
    storage,          \* localStorage entry of the completion history
    completionHistory, \* completion history in the application state
    returned,         \* outcome of the last time-analytics call
    steps,            \* number of handler invocations so far
    lastOp            \* the handler invocation that produced this state

vars == <<scheduleEvents, dndWindows, smartReminders, pauseUntil, conflict,
          changeHistory, activeReminders, renderedAt, now, nextId,
          storage, completionHistory, returned, steps, lastOp>>

----------------------------------------------------------------------------
\* Bounds of the model

MaxSteps == 4

MaxReminderSteps == 2

MaxAnchors == 4

MaxClock == 1600

----------------------------------------------------------------------------
\* Constants of the program

NoTime == -1

NoId == 0

MinutesPerDay == 1440

MaxChangeHistory == 5

DAYS_OF_WEEK == <<"Monday", "Tuesday", "Wednesday", "Thursday", "Friday", "Saturday", "Sunday">>

----------------------------------------------------------------------------
\* Strings of numbers; a string is the sequence of its characters

DigitChars == <<"0", "1", "2", "3", "4", "5", "6", "7", "8", "9">>

RECURSIVE Digits(_)
\* the decimal digits of n >= 0
Digits(n) == IF n < 10 THEN <<DigitChars[n + 1]>> ELSE Append(Digits(n \div 10), DigitChars[(n % 10) + 1])

RECURSIVE DigitsValue(_)
DigitsValue(ds) ==
    IF Len(ds) = 0 THEN 0
    ELSE 10 * DigitsValue(SubSeq(ds, 1, Len(ds) - 1))
         + (CHOOSE d \in 0..9 : DigitChars[d + 1] = ds[Len(ds)])

\* String(n)
String(n) == IF n < 0 THEN <<"-">> \o Digits(-n) ELSE Digits(n)

\* s.padStart(2, '0') of a string of at least one character
padStart2(s) == IF Len(s) < 2 THEN <<"0">> \o s ELSE s

\* Number(s) of a string of digits with an optional sign
Number(s) ==
    IF Len(s) = 0 THEN 0
    ELSE IF Head(s) = "-" THEN -DigitsValue(Tail(s))
    ELSE DigitsValue(s)

\* time.split(':') of a string with one colon
split(time) ==
    LET k == CHOOSE i \in 1..Len(time) : time[i] = ":" /\ \A j \in 1..(i - 1) : time[j] # ":"
    IN <<SubSeq(time, 1, k - 1), SubSeq(time, k + 1, Len(time))>>

\* const [h, m] = time.split(':').map(Number)
hoursOf(time) == Number(split(time)[1])

minutesOf(time) == Number(split(time)[2])

\* a % b of JavaScript: the sign follows the dividend
JsMod(a, b) == IF a >= 0 THEN a % b ELSE -((-a) % b)

\* the "HH:MM" string of hour h and minute m, as the time inputs write it
T(h, m) == padStart2(String(h)) \o <<":">> \o padStart2(String(m))

timeToMinutes(time) ==
    IF time = <<>> THEN 0
    ELSE hoursOf(time) * 60 + minutesOf(time)

\* faulty variant: the numbers are written without padding
minutesToTime_unpadded(minutes) ==
    String(JsMod(minutes \div 60, 24)) \o <<":">> \o String(JsMod(minutes, 60))

minutesToTime(minutes) ==
    LET h == JsMod(minutes \div 60, 24)
        m == JsMod(minutes, 60)
    IN padStart2(String(h)) \o <<":">> \o padStart2(String(m))

\* faulty variant: intervals that touch count as overlapping
doTimesOverlap_inclusive(startA, endA, startB, endB) ==
    timeToMinutes(startA) <= timeToMinutes(endB) /\ timeToMinutes(endA) >= timeToMinutes(startB)

doTimesOverlap(startA, endA, startB, endB) ==
    LET startAMin == timeToMinutes(startA)
        endAMin == timeToMinutes(endA)
        startBMin == timeToMinutes(startB)
        endBMin == timeToMinutes(endB)
    IN startAMin < endBMin /\ endAMin > startBMin

----------------------------------------------------------------------------
\* Array helpers

\* the first of the matching indices (Array.prototype.find), 0 when none matches
FirstIndex(matching) ==
    IF matching = {} THEN 0
    ELSE CHOOSE i \in matching : \A j \in matching : i <= j

\* the elements of a sequence
Range(q) == {q[i] : i \in 1..Len(q)}

\* the anchor with this id (Array.prototype.find), index 0 when missing
EventIndex(events, eventId) ==
    FirstIndex({i \in 1..Len(events) : events[i].id = eventId})

\* the DND window of a day
DndIndex(windows, day) ==
    FirstIndex({i \in 1..Len(windows) : windows[i].day = day})

----------------------------------------------------------------------------
\* Dates

\* midnight of the day of timestamp t
startOfDay(t) == (t \div MinutesPerDay) * MinutesPerDay

\* a copy of date t after setHours(h, m, 0, 0)
setHours(t, h, m) == startOfDay(t) + h * 60 + m

\* DAYS_OF_WEEK[now.getDay() === 0 ? 6 : now.getDay() - 1]
todayDay(t) == DAYS_OF_WEEK[((t \div MinutesPerDay) % 7) + 1]

----------------------------------------------------------------------------
\* Completion history store (timeAnalytics)

MAX_RECORDS_PER_TAG == 100

\* Object.values(EnergyTag)
EnergyTag == <<"Creative", "Tedious", "Admin", "Social", "Errand">>

EnergyTags == {EnergyTag[i] : i \in 1..Len(EnergyTag)}

\* the structure with every tag and no record
emptyHistory == [tag \in EnergyTags |-> <<>>]

\* localStorage entry: absent, text that JSON.parse rejects, the text "null",
\* or the JSON text of an object, kept as the object it parses to
NoBlob == [kind |-> "missing", data |-> <<>>]
UnparseableBlob == [kind |-> "unparseable", data |-> <<>>]
NullBlob == [kind |-> "null", data |-> <<>>]
ObjectBlob(data) == [kind |-> "object", data |-> data]

\* what the storage provider does in a call: it works, setItem throws (quota
\* exceeded), or every access throws (storage not available)
StorageWorks == "works"
QuotaExceeded == "quota"
StorageUnavailable == "unavailable"
StorageModes == {StorageWorks, QuotaExceeded, StorageUnavailable}

getFails(mode) == mode = StorageUnavailable
setFails(mode) == mode \in {QuotaExceeded, StorageUnavailable}
removeFails(mode) == mode = StorageUnavailable

\* faulty variant: the parsed object is returned as it is, without the loop
\* over the tags
getCompletionHistory_asParsed(blob, mode) ==
    IF getFails(mode) THEN emptyHistory
    ELSE IF blob.kind = "missing" THEN emptyHistory
    ELSE IF blob.kind \in {"unparseable", "null"} THEN emptyHistory
    ELSE blob.data

\* getCompletionHistory
getCompletionHistory(blob, mode) ==
    IF getFails(mode) THEN emptyHistory
    ELSE IF blob.kind = "missing" THEN emptyHistory
    ELSE IF blob.kind \in {"unparseable", "null"} THEN emptyHistory
    ELSE [tag \in EnergyTags |->
             IF tag \in DOMAIN blob.data THEN blob.data[tag] ELSE <<>>]

\* outcome of a call: the value it returned, or that it threw
Returned(op, value) == [op |-> op, raised |-> FALSE, value |-> value]
Raised(op) == [op |-> op, raised |-> TRUE, value |-> <<>>]
NoCall == Returned("none", <<>>)

\* the time analytics when the application is opened on an empty storage
AnalyticsAtMount ==
    /\ storage = NoBlob
    /\ completionHistory = getCompletionHistory(storage, StorageWorks)
    /\ returned = NoCall

UnchangedAnalytics == UNCHANGED <<storage, completionHistory, returned>>

----------------------------------------------------------------------------
\* Reminder engine (the activeReminders memo)

Active == "active"
Snoozed == "snoozed"
Done == "done"
Paused == "paused"
Ignored == "ignored"

NotShifted == "null"
DndShifted == "DND-shifted"

\* faulty variant: the comparison with the clock is reversed
isPausedAt_reversed(pause, t) == pause # NoTime /\ t > pause

\* the global pause pre-filter
isPausedAt(pause, t) == pause # NoTime /\ t < pause

\* the reminders the engine looks at
hasListedStatus(r) == r.status \in {Active, Snoozed, Paused}

\* anchor start on today's date plus the offset
baseTriggerTime(r, event, t) ==
    LET h == hoursOf(event.startTime)
        m == minutesOf(event.startTime)
        eventDate == setHours(t, h, m)
    IN eventDate + r.offsetMinutes

\* the trigger time before any DND shift
unshiftedTriggerTime(r, event, t) ==
    IF r.status \in {Snoozed, Paused} /\ r.snoozedUntil # NoTime
    THEN r.snoozedUntil
    ELSE baseTriggerTime(r, event, t)

\* faulty variant: the status test exempts the wrong reminders
isStale_exemptsActive(r, triggerTime, t) ==
    triggerTime < t /\ r.status # Active

\* a reminder whose time has passed and that is neither snoozed nor paused
isStale(r, triggerTime, t) ==
    triggerTime < t /\ r.status # Snoozed /\ r.status # Paused

\* the two Date values the engine derives from a DND window at time t
dndInterval(w, t) ==
    LET sh == hoursOf(w.startTime)
        sm == minutesOf(w.startTime)
        eh == hoursOf(w.endTime)
        em == minutesOf(w.endTime)
        dndStart == setHours(t, sh, sm)
        dndEnd == setHours(t, eh, em)
    IN IF dndEnd < dndStart
       THEN IF t < dndEnd
            THEN [start |-> dndStart - MinutesPerDay, end |-> dndEnd]
            ELSE [start |-> dndStart, end |-> dndEnd + MinutesPerDay]
       ELSE [start |-> dndStart, end |-> dndEnd]

\* the test that decides the shift
inDndInterval(triggerTime, iv) == triggerTime >= iv.start /\ triggerTime <= iv.end

\* trigger time and annotation after the DND step
dndShift(triggerTime, windows, t) ==
    LET k == DndIndex(windows, todayDay(t))
    IN IF k # 0 /\ windows[k].startTime # <<>> /\ windows[k].endTime # <<>>
          /\ inDndInterval(triggerTime, dndInterval(windows[k], t))
       THEN [triggerTime |-> dndInterval(windows[k], t).end, shiftedReason |-> DndShifted]
       ELSE [triggerTime |-> triggerTime, shiftedReason |-> NotShifted]

\* the list entry of reminder r, which has a live anchor and is not stale
listEntry(r, events, windows, t) ==
    LET event == events[EventIndex(events, r.eventId)]
        shifted == dndShift(unshiftedTriggerTime(r, event, t), windows, t)
    IN [reminder |-> r, event |-> event,
        triggerTime |-> shifted.triggerTime, shiftedReason |-> shifted.shiftedReason]

\* map(...) returns null for these
isDropped(r, events, t) ==
    \/ EventIndex(events, r.eventId) = 0
    \/ isStale(r, unshiftedTriggerTime(r, events[EventIndex(events, r.eventId)], t), t)

\* faulty variant: the comparator is reversed
insertByTrigger_descending(sorted, x) ==
    LET k == Cardinality({i \in 1..Len(sorted) : sorted[i].triggerTime >= x.triggerTime})
    IN SubSeq(sorted, 1, k) \o <<x>> \o SubSeq(sorted, k + 1, Len(sorted))

\* Array.prototype.sort with (a, b) => a.triggerTime - b.triggerTime, stable
insertByTrigger(sorted, x) ==
    LET k == Cardinality({i \in 1..Len(sorted) : sorted[i].triggerTime <= x.triggerTime})
    IN SubSeq(sorted, 1, k) \o <<x>> \o SubSeq(sorted, k + 1, Len(sorted))

RECURSIVE sortByTrigger(_)
sortByTrigger(list) ==
    IF Len(list) = 0 THEN <<>>
    ELSE insertByTrigger(sortByTrigger(SubSeq(list, 1, Len(list) - 1)), list[Len(list)])

RECURSIVE mapAndFilter_stopAtDangling(_, _, _, _)
\* faulty variant: a reminder without anchor ends the listing
mapAndFilter_stopAtDangling(reminders, events, windows, t) ==
    IF Len(reminders) = 0 THEN <<>>
    ELSE LET r == Head(reminders)
             rest == mapAndFilter_stopAtDangling(Tail(reminders), events, windows, t)
         IN IF hasListedStatus(r) /\ EventIndex(events, r.eventId) = 0
            THEN <<>>
            ELSE IF hasListedStatus(r) /\ ~isDropped(r, events, t)
            THEN <<listEntry(r, events, windows, t)>> \o rest
            ELSE rest

RECURSIVE mapAndFilter(_, _, _, _)
mapAndFilter(reminders, events, windows, t) ==
    IF Len(reminders) = 0 THEN <<>>
    ELSE LET r == Head(reminders)
             rest == mapAndFilter(Tail(reminders), events, windows, t)
         IN IF hasListedStatus(r) /\ ~isDropped(r, events, t)
            THEN <<listEntry(r, events, windows, t)>> \o rest
            ELSE rest

computeActiveReminders(reminders, events, windows, pause, t) ==
    IF isPausedAt(pause, t) THEN <<>>
    ELSE sortByTrigger(mapAndFilter(reminders, events, windows, t))

\* the memo is recomputed when one of its dependencies is set
Render(reminders, events, windows, pause) ==
    /\ activeReminders' = computeActiveReminders(reminders, events, windows, pause, now)
    /\ renderedAt' = now

NoRender == UNCHANGED <<activeReminders, renderedAt>>

----------------------------------------------------------------------------
\* Change history

EventsChange(snapshot) == [kind |-> "events", snap |-> snapshot]
RemindersChange(snapshot) == [kind |-> "reminders", snap |-> snapshot]
PauseChange(snapshot) == [kind |-> "pause", snap |-> snapshot]

\* faulty variant: the entry is put at the end and the oldest five are kept
addChangeToHistory_oldestFirst(history, entry) ==
    LET all == history \o <<entry>>
    IN IF Len(all) > MaxChangeHistory THEN SubSeq(all, 1, MaxChangeHistory) ELSE all

addChangeToHistory(history, entry) ==
    LET all == <<entry>> \o history
    IN IF Len(all) > MaxChangeHistory THEN SubSeq(all, 1, MaxChangeHistory) ELSE all

----------------------------------------------------------------------------
\* Conflict detection and resolution

NoConflict == [type |-> "none", eventToMoveId |-> NoId, targetDay |-> "", overlappingEventId |-> NoId]

\* the anchor after a move; newStartTime = <<>> stands for "not given"
movedEvent(e, targetDay, newStartTime) ==
    LET startTime == IF newStartTime # <<>> THEN newStartTime ELSE e.startTime
        duration == timeToMinutes(e.endTime) - timeToMinutes(e.startTime)
        endTime == minutesToTime(timeToMinutes(startTime) + duration)
    IN [e EXCEPT !.day = targetDay, !.startTime = startTime, !.endTime = endTime]

\* the array moveEvent sets; the anchor exists
eventsAfterMove(events, eventId, targetDay, newStartTime) ==
    LET eventToMove == events[EventIndex(events, eventId)]
    IN [i \in 1..Len(events) |->
          IF events[i].id = eventId
          THEN [events[i] EXCEPT !.day = targetDay,
                                 !.startTime = movedEvent(eventToMove, targetDay, newStartTime).startTime,
                                 !.endTime = movedEvent(eventToMove, targetDay, newStartTime).endTime]
          ELSE events[i]]

\* moveEvent: schedule, change history and memo
moveEvent(eventId, targetDay, newStartTime) ==
    IF EventIndex(scheduleEvents, eventId) = 0
    THEN UNCHANGED <<scheduleEvents, changeHistory>> /\ NoRender
    ELSE /\ scheduleEvents' = eventsAfterMove(scheduleEvents, eventId, targetDay, newStartTime)
         /\ changeHistory' = addChangeToHistory(changeHistory, EventsChange(scheduleEvents))
         /\ Render(smartReminders, scheduleEvents', dndWindows, pauseUntil)

\* the DND test of handleDrop
dropHitsDnd(e, windows, day) ==
    LET k == DndIndex(windows, day)
    IN k # 0 /\ doTimesOverlap(e.startTime, e.endTime, windows[k].startTime, windows[k].endTime)

\* the first other anchor of the day that overlaps e, index 0 when none
overlappingIndex(e, events, day) ==
    LET Hits(ev) == /\ ev.day = day
                    /\ ev.id # e.id
                    /\ doTimesOverlap(e.startTime, e.endTime, ev.startTime, ev.endTime)
    IN FirstIndex({i \in 1..Len(events) : Hits(events[i])})

\* faulty variant: the check misses the other anchors of the day
detectConflict_dndOnly(e, events, windows, day) ==
    IF dropHitsDnd(e, windows, day)
    THEN [type |-> "dnd", eventToMoveId |-> e.id, targetDay |-> day, overlappingEventId |-> NoId]
    ELSE NoConflict

\* the conflict handleDrop raises for anchor e dropped on day, NoConflict when none
detectConflict(e, events, windows, day) ==
    IF dropHitsDnd(e, windows, day)
    THEN [type |-> "dnd", eventToMoveId |-> e.id, targetDay |-> day, overlappingEventId |-> NoId]
    ELSE IF overlappingIndex(e, events, day) # 0
    THEN [type |-> "overlap", eventToMoveId |-> e.id, targetDay |-> day,
          overlappingEventId |-> events[overlappingIndex(e, events, day)].id]
    ELSE NoConflict

----------------------------------------------------------------------------
\* Inputs of the model

\* the days anchors are dropped on and created for
TargetDays == {"Monday", "Tuesday"}

Anchor(id, day, startTime, endTime) ==
    [id |-> id, day |-> day, startTime |-> startTime, endTime |-> endTime]

Window(day, startTime, endTime) ==
    [day |-> day, startTime |-> startTime, endTime |-> endTime]

\* the same window on Monday and Tuesday
DailyWindows(startTime, endTime) ==
    <<Window("Monday", startTime, endTime), Window("Tuesday", startTime, endTime)>>

\* the schedules the calendar page is opened with
InitialSchedules ==
    { [events |-> <<Anchor(1, "Monday", T(5, 0), T(6, 0)), Anchor(2, "Tuesday", T(5, 30), T(6, 30))>>,
       windows |-> DailyWindows(T(23, 0), T(7, 0))],
      [events |-> <<Anchor(1, "Monday", T(8, 30), T(9, 30)), Anchor(2, "Tuesday", T(9, 10), T(10, 0))>>,
       windows |-> DailyWindows(T(8, 0), T(9, 0))],
      [events |-> <<Anchor(1, "Monday", T(22, 0), T(23, 0)), Anchor(2, "Tuesday", T(22, 30), T(23, 30))>>,
       windows |-> <<Window("Tuesday", T(12, 0), T(13, 0))>>],
      [events |-> <<Anchor(1, "Monday", T(22, 0), T(23, 30)), Anchor(2, "Tuesday", T(9, 0), T(10, 0))>>,
       windows |-> <<Window("Tuesday", T(21, 0), T(23, 0))>>],
      [events |-> <<Anchor(1, "Monday", T(23, 30), T(23, 45)), Anchor(2, "Tuesday", T(9, 0), T(10, 0))>>,
       windows |-> DailyWindows(T(23, 0), T(7, 0))] }

\* what the add-anchor form and the assistant are asked to create
NewAnchorData ==
    { [startTime |-> T(9, 0), endTime |-> T(10, 0), days |-> <<"Monday">>],
      [startTime |-> T(5, 0), endTime |-> T(6, 0), days |-> <<"Monday", "Tuesday">>] }

Op(name, eventId, day, arg) == [name |-> name, eventId |-> eventId, day |-> day, arg |-> arg]

----------------------------------------------------------------------------
\* Handlers of the schedule

UnchangedReminderSide == UNCHANGED <<dndWindows, smartReminders, pauseUntil, now>>

Step(op) == steps < MaxSteps /\ steps' = steps + 1 /\ lastOp' = op /\ UnchangedAnalytics

ReminderStep(op) ==
    steps < MaxReminderSteps /\ steps' = steps + 1 /\ lastOp' = op /\ UnchangedAnalytics

\* handleDrop: drag-and-drop of anchor eventId onto day
handleDrop(eventId, day) ==
    /\ LET i == EventIndex(scheduleEvents, eventId)
       IN IF i = 0 \/ scheduleEvents[i].day = day
          THEN UNCHANGED <<scheduleEvents, changeHistory, conflict>> /\ NoRender
          ELSE IF detectConflict(scheduleEvents[i], scheduleEvents, dndWindows, day) # NoConflict
          THEN /\ conflict' = detectConflict(scheduleEvents[i], scheduleEvents, dndWindows, day)
               /\ UNCHANGED <<scheduleEvents, changeHistory>>
               /\ NoRender
          ELSE /\ moveEvent(eventId, day, <<>>)
               /\ UNCHANGED conflict
    /\ UNCHANGED nextId
    /\ UnchangedReminderSide

\* handleDrop as a step of the page
HandleDrop(eventId, day) ==
    /\ Step(Op("handleDrop", eventId, day, ""))
    /\ handleDrop(eventId, day)

\* faulty variant: "shift to avoid" moves to the start of the overlapping anchor
resolution_shiftToStart(decision, c, events, windows) ==
    IF decision = "keep_overlap"
    THEN [moves |-> TRUE, newStartTime |-> <<>>]
    ELSE IF decision = "shift_overlap"
    THEN IF EventIndex(events, c.overlappingEventId) # 0
         THEN [moves |-> TRUE,
               newStartTime |-> minutesToTime(timeToMinutes(
                                    events[EventIndex(events, c.overlappingEventId)].startTime))]
         ELSE [moves |-> FALSE, newStartTime |-> <<>>]
    ELSE IF DndIndex(windows, c.targetDay) # 0
         THEN [moves |-> TRUE, newStartTime |-> windows[DndIndex(windows, c.targetDay)].endTime]
         ELSE [moves |-> FALSE, newStartTime |-> <<>>]

\* faulty variant: "shift to avoid" moves the anchor unshifted when the overlapping anchor is gone
resolution_moveAnyway(decision, c, events, windows) ==
    IF decision = "keep_overlap"
    THEN [moves |-> TRUE, newStartTime |-> <<>>]
    ELSE IF decision = "shift_overlap"
    THEN IF EventIndex(events, c.overlappingEventId) # 0
         THEN [moves |-> TRUE,
               newStartTime |-> minutesToTime(timeToMinutes(
                                    events[EventIndex(events, c.overlappingEventId)].endTime))]
         ELSE [moves |-> TRUE, newStartTime |-> <<>>]
    ELSE IF DndIndex(windows, c.targetDay) # 0
         THEN [moves |-> TRUE, newStartTime |-> windows[DndIndex(windows, c.targetDay)].endTime]
         ELSE [moves |-> FALSE, newStartTime |-> <<>>]

\* the start time a decision moves the anchor to; the flag tells whether it moves at all
resolution(decision, c, events, windows) ==
    IF decision = "keep_overlap"
    THEN [moves |-> TRUE, newStartTime |-> <<>>]
    ELSE IF decision = "shift_overlap"
    THEN IF EventIndex(events, c.overlappingEventId) # 0
         THEN [moves |-> TRUE,
               newStartTime |-> minutesToTime(timeToMinutes(
                                    events[EventIndex(events, c.overlappingEventId)].endTime))]
         ELSE [moves |-> FALSE, newStartTime |-> <<>>]
    ELSE IF DndIndex(windows, c.targetDay) # 0
         THEN [moves |-> TRUE, newStartTime |-> windows[DndIndex(windows, c.targetDay)].endTime]
         ELSE [moves |-> FALSE, newStartTime |-> <<>>]

\* resolveConflict: a button of the conflict dialog
ResolveConflict(decision) ==
    /\ Step(Op("resolveConflict", conflict.eventToMoveId, conflict.targetDay, decision))
    /\ IF conflict = NoConflict
       THEN UNCHANGED <<scheduleEvents, changeHistory, conflict>> /\ NoRender
       ELSE /\ IF resolution(decision, conflict, scheduleEvents, dndWindows).moves
               THEN moveEvent(conflict.eventToMoveId, conflict.targetDay,
                              resolution(decision, conflict, scheduleEvents, dndWindows).newStartTime)
               ELSE UNCHANGED <<scheduleEvents, changeHistory>> /\ NoRender
            /\ conflict' = NoConflict
    /\ UNCHANGED nextId
    /\ UnchangedReminderSide

\* the Cancel button and the backdrop of the dialog: setConflict(null)
CancelConflict ==
    /\ conflict # NoConflict
    /\ Step(Op("cancelConflict", conflict.eventToMoveId, conflict.targetDay, ""))
    /\ conflict' = NoConflict
    /\ UNCHANGED <<scheduleEvents, changeHistory, nextId>>
    /\ NoRender
    /\ UnchangedReminderSide

\* handleDuplicateAnchor
HandleDuplicateAnchor(eventId) ==
    /\ Len(scheduleEvents) < MaxAnchors
    /\ Step(Op("handleDuplicateAnchor", eventId, "", ""))
    /\ LET i == EventIndex(scheduleEvents, eventId)
       IN IF i = 0
          THEN UNCHANGED <<scheduleEvents, changeHistory, nextId>> /\ NoRender
          ELSE /\ scheduleEvents' = Append(scheduleEvents, [scheduleEvents[i] EXCEPT !.id = nextId])
               /\ nextId' = nextId + 1
               /\ changeHistory' = addChangeToHistory(changeHistory, EventsChange(scheduleEvents))
               /\ Render(smartReminders, scheduleEvents', dndWindows, pauseUntil)
    /\ UNCHANGED conflict
    /\ UnchangedReminderSide

\* the anchors a form creates: one per day, with fresh ids
newEvents(data, firstId) ==
    [k \in 1..Len(data.days) |->
        Anchor(firstId + k - 1, data.days[k], data.startTime, data.endTime)]

\* handleSaveAnchor: the add-anchor form
HandleSaveAnchor(data) ==
    /\ Len(scheduleEvents) + Len(data.days) <= MaxAnchors
    /\ Step(Op("handleSaveAnchor", nextId, data.days[1], ""))
    /\ scheduleEvents' = scheduleEvents \o newEvents(data, nextId)
    /\ nextId' = nextId + Len(data.days)
    /\ changeHistory' = addChangeToHistory(changeHistory, EventsChange(scheduleEvents))
    /\ Render(smartReminders, scheduleEvents', dndWindows, pauseUntil)
    /\ UNCHANGED conflict
    /\ UnchangedReminderSide

\* processAction of the assistant, ADD_ANCHOR
AiAddAnchor(parameters) ==
    /\ Len(scheduleEvents) + Len(parameters.days) <= MaxAnchors
    /\ Step(Op("ADD_ANCHOR", nextId, parameters.days[1], ""))
    /\ scheduleEvents' = scheduleEvents \o newEvents(parameters, nextId)
    /\ nextId' = nextId + Len(parameters.days)
    /\ changeHistory' = addChangeToHistory(changeHistory, EventsChange(scheduleEvents))
    /\ Render(smartReminders, scheduleEvents', dndWindows, pauseUntil)
    /\ UNCHANGED conflict
    /\ UnchangedReminderSide

\* the undo callback of the k-th recorded change, for a change of the anchors
undoEvents(k) ==
    /\ k \in 1..Len(changeHistory)
    /\ changeHistory[k].kind = "events"
    /\ scheduleEvents' = changeHistory[k].snap
    /\ Render(smartReminders, scheduleEvents', dndWindows, pauseUntil)
    /\ UNCHANGED <<changeHistory, conflict, nextId>>
    /\ UnchangedReminderSide

\* that undo as a step of the page
UndoEvents(k) ==
    /\ Step(Op("undo", k, "", "events"))
    /\ undoEvents(k)

----------------------------------------------------------------------------
\* The schedule side of the page: anchors, conflicts, undo

InitSchedule ==
    /\ \E s \in InitialSchedules :
          /\ scheduleEvents = s.events
          /\ dndWindows = s.windows
    /\ smartReminders = <<>>
    /\ pauseUntil = NoTime
    /\ conflict = NoConflict
    /\ changeHistory = <<>>
    /\ now = 0
    /\ activeReminders = computeActiveReminders(smartReminders, scheduleEvents, dndWindows, pauseUntil, now)
    /\ renderedAt = now
    /\ nextId = 3
    /\ AnalyticsAtMount
    /\ steps = 0
    /\ lastOp = Op("mount", NoId, "", "")

NextSchedule ==
    \/ \E id \in 1..(nextId - 1), day \in TargetDays : HandleDrop(id, day)
    \/ \E decision \in {"shift_dnd", "shift_overlap", "keep_overlap"} : ResolveConflict(decision)
    \/ CancelConflict
    \/ \E id \in 1..(nextId - 1) : HandleDuplicateAnchor(id)
    \/ \E data \in NewAnchorData : HandleSaveAnchor(data)
    \/ \E parameters \in NewAnchorData : AiAddAnchor(parameters)
    \/ \E k \in 1..MaxChangeHistory : UndoEvents(k)

SpecSchedule == InitSchedule /\ [][NextSchedule]_vars

----------------------------------------------------------------------------
\* Handlers of the reminders

NoOffset == 100000

Reminder(id, eventId, offsetMinutes) ==
    [id |-> id, eventId |-> eventId, offsetMinutes |-> offsetMinutes,
     isLocked |-> FALSE, isExploratory |-> FALSE, originalOffsetMinutes |-> NoOffset,
     status |-> Active, snoozeHistory |-> <<>>, snoozedUntil |-> NoTime,
     successHistory |-> <<>>, allowExploration |-> TRUE, lastInteraction |-> NoTime,
     isStackedHabit |-> FALSE]

ReminderIndex(reminders, id) ==
    FirstIndex({i \in 1..Len(reminders) : reminders[i].id = id})

\* faulty variant: the start of the window is always taken on today's date
laterTime_todayOnly(windows, t) ==
    LET threeHours == t + 3 * 60
        k == DndIndex(windows, todayDay(t))
        capped ==
            IF k # 0 /\ windows[k].startTime # <<>>
            THEN LET dndCap == setHours(t, hoursOf(windows[k].startTime),
                                        minutesOf(windows[k].startTime)) - 15
                 IN IF threeHours > dndCap THEN dndCap ELSE threeHours
            ELSE threeHours
    IN IF capped <= t THEN t + 60 ELSE capped

\* the time the "later" action snoozes to
laterTime(windows, t) ==
    LET threeHours == t + 3 * 60
        k == DndIndex(windows, todayDay(t))
        capped ==
            IF k # 0 /\ windows[k].startTime # <<>>
            THEN LET h == hoursOf(windows[k].startTime)
                     m == minutesOf(windows[k].startTime)
                     dndStart0 == setHours(t, h, m)
                     dndStart == IF dndStart0 < t THEN dndStart0 + MinutesPerDay ELSE dndStart0
                     dndCap == dndStart - 15
                 IN IF threeHours > dndCap THEN dndCap ELSE threeHours
            ELSE threeHours
    IN IF capped <= t THEN t + 60 ELSE capped

\* 9:00 of the next day
tomorrowMorning(t) == setHours(t + MinutesPerDay, 9, 0)

\* faulty variant: the lock is flipped alone
toggledLock_lockOnly(r) == [r EXCEPT !.isLocked = ~r.isLocked]

\* the toggle_lock branch
toggledLock(r) ==
    LET isNowLocked == ~r.isLocked
    IN [r EXCEPT !.isLocked = isNowLocked, !.allowExploration = ~isNowLocked]

\* faulty variant: the status is left as it is
revertedExploration_keepsStatus(r) ==
    IF r.isExploratory /\ r.originalOffsetMinutes # NoOffset
    THEN [r EXCEPT !.offsetMinutes = r.originalOffsetMinutes,
                   !.originalOffsetMinutes = NoOffset,
                   !.isExploratory = FALSE,
                   !.snoozedUntil = NoTime]
    ELSE r

\* the revert_exploration branch
revertedExploration(r) ==
    IF r.isExploratory /\ r.originalOffsetMinutes # NoOffset
    THEN [r EXCEPT !.offsetMinutes = r.originalOffsetMinutes,
                   !.originalOffsetMinutes = NoOffset,
                   !.isExploratory = FALSE,
                   !.status = Active,
                   !.snoozedUntil = NoTime]
    ELSE r

\* the reminder a handleReminderAction branch writes in place of r
reminderAfter(r, action, payload, windows, t) ==
    IF action = "snooze"
    THEN [r EXCEPT !.status = Snoozed,
                   !.snoozedUntil = t + payload,
                   !.snoozeHistory = Append(r.snoozeHistory, payload),
                   !.successHistory = Append(r.successHistory, "snoozed"),
                   !.lastInteraction = t]
    ELSE IF action = "done"
    THEN [r EXCEPT !.status = Done,
                   !.successHistory = Append(r.successHistory, "success"),
                   !.lastInteraction = t]
    ELSE IF action = "pause"
    THEN [r EXCEPT !.status = Paused, !.snoozedUntil = tomorrowMorning(t)]
    ELSE IF action = "toggle_lock"
    THEN toggledLock(r)
    ELSE IF action = "ignore"
    THEN [r EXCEPT !.status = Ignored,
                   !.successHistory = Append(r.successHistory, "ignored"),
                   !.lastInteraction = t]
    ELSE IF action = "later"
    THEN [r EXCEPT !.status = Snoozed,
                   !.snoozedUntil = laterTime(windows, t),
                   !.successHistory = Append(r.successHistory, "snoozed"),
                   !.lastInteraction = t]
    ELSE IF action = "revert_exploration"
    THEN revertedExploration(r)
    ELSE r

\* faulty variant: the branch is applied to every reminder
updatedReminders_all(reminders, id, action, payload, windows, t) ==
    [i \in 1..Len(reminders) |-> reminderAfter(reminders[i], action, payload, windows, t)]

updatedReminders(reminders, id, action, payload, windows, t) ==
    [i \in 1..Len(reminders) |->
        IF reminders[i].id = id
        THEN reminderAfter(reminders[i], action, payload, windows, t)
        ELSE reminders[i]]

\* the branches that set a history message
recordsChange(action) ==
    action \in {"snooze", "done", "pause", "toggle_lock", "later", "revert_exploration"}

ReminderActions ==
    {"snooze", "done", "pause", "toggle_lock", "ignore", "later", "revert_exploration"}

SnoozeMinutes == {15}

UnchangedScheduleSide == UNCHANGED <<scheduleEvents, dndWindows, conflict, nextId>>

\* handleReminderAction
handleReminderAction(id, action, payload) ==
    /\ IF ReminderIndex(smartReminders, id) = 0
       THEN UNCHANGED <<smartReminders, changeHistory>> /\ NoRender
       ELSE /\ smartReminders' = updatedReminders(smartReminders, id, action, payload, dndWindows, now)
            /\ changeHistory' = IF recordsChange(action)
                                THEN addChangeToHistory(changeHistory, RemindersChange(smartReminders))
                                ELSE changeHistory
            /\ Render(smartReminders', scheduleEvents, dndWindows, pauseUntil)
    /\ UNCHANGED <<pauseUntil, now>>
    /\ UnchangedScheduleSide

\* handleReminderAction as a step of the page
HandleReminderAction(id, action, payload) ==
    /\ ReminderStep(Op(action, id, "", IF action = "snooze" THEN payload ELSE ""))
    /\ handleReminderAction(id, action, payload)

\* processAction of the assistant, PAUSE_NOTIFICATIONS
AiPauseNotifications(durationDays) ==
    /\ ReminderStep(Op("PAUSE_NOTIFICATIONS", NoId, "", ""))
    /\ pauseUntil' = now + (IF durationDays # 0 THEN durationDays ELSE 1) * MinutesPerDay
    /\ changeHistory' = addChangeToHistory(changeHistory, PauseChange(pauseUntil))
    /\ Render(smartReminders, scheduleEvents, dndWindows, pauseUntil')
    /\ UNCHANGED <<smartReminders, now>>
    /\ UnchangedScheduleSide

\* the "Resume Now" button of the pause banner
ResumeNow ==
    /\ isPausedAt(pauseUntil, now)
    /\ ReminderStep(Op("resumeNow", NoId, "", ""))
    /\ pauseUntil' = NoTime
    /\ changeHistory' = addChangeToHistory(changeHistory, PauseChange(pauseUntil))
    /\ Render(smartReminders, scheduleEvents, dndWindows, pauseUntil')
    /\ UNCHANGED <<smartReminders, now>>
    /\ UnchangedScheduleSide

\* the undo callback of the k-th recorded change, for a change of the reminders
undoReminders(k) ==
    /\ k \in 1..Len(changeHistory)
    /\ changeHistory[k].kind = "reminders"
    /\ smartReminders' = changeHistory[k].snap
    /\ Render(smartReminders', scheduleEvents, dndWindows, pauseUntil)
    /\ UNCHANGED <<changeHistory, pauseUntil, now>>
    /\ UnchangedScheduleSide

\* that undo as a step of the page
UndoReminders(k) ==
    /\ ReminderStep(Op("undo", k, "", "reminders"))
    /\ undoReminders(k)

\* the undo callback of the k-th recorded change, for a change of the pause
UndoPause(k) ==
    /\ k \in 1..Len(changeHistory)
    /\ changeHistory[k].kind = "pause"
    /\ ReminderStep(Op("undo", k, "", "pause"))
    /\ pauseUntil' = changeHistory[k].snap
    /\ Render(smartReminders, scheduleEvents, dndWindows, pauseUntil')
    /\ UNCHANGED <<changeHistory, smartReminders, now>>
    /\ UnchangedScheduleSide

\* the wall clock advances; nothing is rendered
Tick(minutes) ==
    /\ now + minutes <= MaxClock
    /\ now' = now + minutes
    /\ lastOp' = Op("tick", NoId, "", "")
    /\ UNCHANGED <<smartReminders, pauseUntil, changeHistory, steps>>
    /\ UnchangedAnalytics
    /\ NoRender
    /\ UnchangedScheduleSide

----------------------------------------------------------------------------
\* The reminder side of the page: reminders, global pause, clock, undo

\* the reminders the page is opened with: one on each of the two anchors
InitialReminders == <<Reminder(1, 1, 0), Reminder(2, 2, -10)>>

\* Monday 02:00
InitialClock == 2 * 60

TickMinutes == {600, 1440}

PauseDays == {1}

InitReminders ==
    /\ \E s \in InitialSchedules :
          /\ scheduleEvents = s.events
          /\ dndWindows = s.windows
    /\ smartReminders = InitialReminders
    /\ pauseUntil = NoTime
    /\ conflict = NoConflict
    /\ changeHistory = <<>>
    /\ now = InitialClock
    /\ activeReminders = computeActiveReminders(smartReminders, scheduleEvents, dndWindows, pauseUntil, now)
    /\ renderedAt = now
    /\ nextId = 3
    /\ AnalyticsAtMount
    /\ steps = 0
    /\ lastOp = Op("mount", NoId, "", "")

NextReminders ==
    \/ \E id \in 1..2, action \in ReminderActions, payload \in SnoozeMinutes :
          HandleReminderAction(id, action, payload)
    \/ \E durationDays \in PauseDays : AiPauseNotifications(durationDays)
    \/ ResumeNow
    \/ \E k \in 1..MaxChangeHistory : UndoReminders(k)
    \/ \E k \in 1..MaxChangeHistory : UndoPause(k)
    \/ \E minutes \in TickMinutes : Tick(minutes)

SpecReminders == InitReminders /\ [][NextReminders]_vars

----------------------------------------------------------------------------
\* The reminder engine under changes of the anchors it refers to

MaxReminders == 3

\* generateDefaults of the onboarding flow, for the days of the model
OnboardingPreview ==
    [newAnchors |-> <<Anchor(11, "Monday", T(9, 0), T(17, 0)),
                      Anchor(12, "Tuesday", T(9, 0), T(17, 0))>>,
     newDnd |-> DailyWindows(T(23, 0), T(7, 0))]

\* onComplete of the onboarding flow: anchors and windows are replaced, the
\* reminders stay
OnboardingComplete ==
    /\ ReminderStep(Op("onboardingComplete", NoId, "", ""))
    /\ scheduleEvents' = OnboardingPreview.newAnchors
    /\ dndWindows' = OnboardingPreview.newDnd
    /\ Render(smartReminders, scheduleEvents', dndWindows', pauseUntil)
    /\ UNCHANGED <<smartReminders, pauseUntil, conflict, changeHistory, now, nextId>>

\* id of the next manually created reminder
nextReminderId(reminders) == Len(reminders) + 1

NewReminderOffsets == {-240, 600}

\* handleCreateReminderFromModal with the one reminder the modal builds for
\* the anchor it resolved
HandleCreateReminderFromModal(anchorId, offsetMinutes) ==
    /\ Len(smartReminders) < MaxReminders
    /\ EventIndex(scheduleEvents, anchorId) # 0
    /\ ReminderStep(Op("createReminder", anchorId, "", ""))
    /\ smartReminders' =
          Append(smartReminders, Reminder(nextReminderId(smartReminders), anchorId, offsetMinutes))
    /\ changeHistory' = addChangeToHistory(changeHistory, RemindersChange(smartReminders))
    /\ Render(smartReminders', scheduleEvents, dndWindows, pauseUntil)
    /\ UNCHANGED <<pauseUntil, now>>
    /\ UnchangedScheduleSide

AnchorIds == {1, 2, 11, 12}

NextEngine ==
    \/ \E id \in 1..MaxReminders, action \in ReminderActions, payload \in SnoozeMinutes :
          HandleReminderAction(id, action, payload)
    \/ OnboardingComplete
    \/ \E anchorId \in AnchorIds, offsetMinutes \in NewReminderOffsets :
          HandleCreateReminderFromModal(anchorId, offsetMinutes)
    \/ \E k \in 1..MaxChangeHistory : UndoReminders(k)
    \/ \E minutes \in TickMinutes : Tick(minutes)

SpecEngine == InitReminders /\ [][NextEngine]_vars

----------------------------------------------------------------------------
\* Reminder actions on stored reminders, at the times of day that decide the
\* "later today" action

\* a habit stacked on an anchor
StackedHabit(id, eventId) ==
    [Reminder(id, eventId, 5) EXCEPT !.isStackedHabit = TRUE]

\* handleAcceptHabitStack
HandleAcceptHabitStack(anchorId) ==
    /\ Len(smartReminders) < MaxReminders
    /\ ReminderStep(Op("acceptHabitStack", anchorId, "", ""))
    /\ IF \/ EventIndex(scheduleEvents, anchorId) = 0
          \/ \E i \in 1..Len(smartReminders) :
                /\ smartReminders[i].eventId = anchorId
                /\ smartReminders[i].isStackedHabit
                /\ Len(smartReminders[i].successHistory) < 3
       THEN UNCHANGED <<smartReminders, changeHistory>> /\ NoRender
       ELSE /\ smartReminders' =
                  Append(smartReminders, StackedHabit(nextReminderId(smartReminders), anchorId))
            /\ changeHistory' = addChangeToHistory(changeHistory, RemindersChange(smartReminders))
            /\ Render(smartReminders', scheduleEvents, dndWindows, pauseUntil)
    /\ UNCHANGED <<pauseUntil, now>>
    /\ UnchangedScheduleSide

\* the reminders found in the storage: an experiment with its original
\* offset or without one, and a locked reminder
StoredReminders ==
    { << [Reminder(1, 1, -15) EXCEPT !.isExploratory = TRUE, !.originalOffsetMinutes = original,
                                     !.snoozeHistory = <<10>>,
                                     !.successHistory = <<"ignored", "snoozed">>],
         [Reminder(2, 2, -5) EXCEPT !.isLocked = TRUE, !.allowExploration = FALSE,
                                    !.successHistory = <<"success", "success", "success">>] >> :
      original \in {-20, NoOffset} }

\* the anchors of the page
StoredAnchors == <<Anchor(1, "Monday", T(9, 0), T(9, 30)), Anchor(2, "Monday", T(9, 30), T(12, 0))>>

\* DND windows and the time the page is used at: the window starts late
\* today, within three hours, within fifteen minutes, has started already
\* (in the morning, or shortly after midnight), or there is none today
ActionSettings ==
    { [windows |-> DailyWindows(T(23, 0), T(7, 0)), clock |-> 2 * 60],
      [windows |-> DailyWindows(T(23, 0), T(7, 0)), clock |-> 21 * 60],
      [windows |-> DailyWindows(T(23, 0), T(7, 0)), clock |-> 22 * 60 + 50],
      [windows |-> DailyWindows(T(8, 0), T(9, 0)), clock |-> 12 * 60],
      [windows |-> DailyWindows(T(2, 0), T(6, 0)), clock |-> 23 * 60 + 30],
      [windows |-> <<Window("Tuesday", T(12, 0), T(13, 0))>>, clock |-> 12 * 60] }

\* the snooze buttons
SnoozeChoices == {5, 15}

NoPayload == 0

InitActions ==
    /\ scheduleEvents = StoredAnchors
    /\ \E setting \in ActionSettings :
          /\ dndWindows = setting.windows
          /\ now = setting.clock
    /\ smartReminders \in StoredReminders
    /\ pauseUntil = NoTime
    /\ conflict = NoConflict
    /\ changeHistory = <<>>
    /\ activeReminders = computeActiveReminders(smartReminders, scheduleEvents, dndWindows, pauseUntil, now)
    /\ renderedAt = now
    /\ nextId = 3
    /\ AnalyticsAtMount
    /\ steps = 0
    /\ lastOp = Op("mount", NoId, "", "")

NextActions ==
    \/ \E id \in 1..MaxReminders, action \in ReminderActions :
          \E payload \in (IF action = "snooze" THEN SnoozeChoices ELSE {NoPayload}) :
             HandleReminderAction(id, action, payload)
    \/ \E anchorId \in 1..2, offsetMinutes \in NewReminderOffsets :
          HandleCreateReminderFromModal(anchorId, offsetMinutes)
    \/ \E anchorId \in 1..2 : HandleAcceptHabitStack(anchorId)
    \/ \E k \in 1..MaxChangeHistory : UndoReminders(k)

SpecActions == InitActions /\ [][NextActions]_vars

----------------------------------------------------------------------------
\* A long run of recorded changes of both lists, and their undo

MaxUndoSteps == 7

UndoStep(op) == steps < MaxUndoSteps /\ steps' = steps + 1 /\ lastOp' = op /\ UnchangedAnalytics

\* the entries of the change history whose Undo button is pressed
UndoPositions == {1, 3}

\* anchor 1 is dropped on a day
DropAnchor(day) ==
    /\ UndoStep(Op("handleDrop", 1, day, ""))
    /\ handleDrop(1, day)

\* the lock button of reminder 1
PressLock ==
    /\ UndoStep(Op("toggle_lock", 1, "", ""))
    /\ handleReminderAction(1, "toggle_lock", NoPayload)

PressUndoEvents(k) ==
    /\ UndoStep(Op("undo", k, "", "events"))
    /\ undoEvents(k)

PressUndoReminders(k) ==
    /\ UndoStep(Op("undo", k, "", "reminders"))
    /\ undoReminders(k)

InitUndo ==
    /\ scheduleEvents = StoredAnchors
    /\ dndWindows = <<Window("Tuesday", T(12, 0), T(13, 0))>>
    /\ now = InitialClock
    /\ smartReminders \in StoredReminders
    /\ pauseUntil = NoTime
    /\ conflict = NoConflict
    /\ changeHistory = <<>>
    /\ activeReminders = computeActiveReminders(smartReminders, scheduleEvents, dndWindows, pauseUntil, now)
    /\ renderedAt = now
    /\ nextId = 3
    /\ AnalyticsAtMount
    /\ steps = 0
    /\ lastOp = Op("mount", NoId, "", "")

NextUndo ==
    \/ \E day \in TargetDays : DropAnchor(day)
    \/ PressLock
    \/ \E k \in UndoPositions : PressUndoEvents(k)
    \/ \E k \in UndoPositions : PressUndoReminders(k)

SpecUndo == InitUndo /\ [][NextUndo]_vars

----------------------------------------------------------------------------
\* Operations of the completion history store

MaxStoreSteps == 2

\* UserDifficulty, in twentieths: 0.8, 1.0, 1.25
Easier == 16
Typical == 20
Harder == 25

CompletionRecord(id, actualDurationMinutes, energyTag, completedAt, subStepCount, difficulty) ==
    [id |-> id, actualDurationMinutes |-> actualDurationMinutes, energyTag |-> energyTag,
     completedAt |-> completedAt, subStepCount |-> subStepCount, difficulty |-> difficulty]

\* faulty variant: the comparator is ascending, so the slice keeps the oldest records
sortsBefore_ascending(a, b) == a.completedAt < b.completedAt

\* the comparator (a, b) => b.completedAt - a.completedAt is negative
sortsBefore(a, b) == a.completedAt > b.completedAt

\* Array.prototype.sort with that comparator, stable: records that compare
\* equal keep their order (rank[i] is the place of records[i] in the result)
sortByCompletedAtDescending(records) ==
    LET n == Len(records)
        rank == <<>> \o [i \in 1..n |->
                    1 + Cardinality({j \in 1..n :
                           \/ sortsBefore(records[j], records[i])
                           \/ /\ ~sortsBefore(records[i], records[j])
                              /\ j < i})]
    IN <<>> \o [k \in 1..n |-> records[CHOOSE i \in 1..n : rank[i] = k]]

\* the pruning step of addRecordToHistory
pruned(recordsForTag) ==
    IF Len(recordsForTag) > MAX_RECORDS_PER_TAG
    THEN SubSeq(sortByCompletedAtDescending(recordsForTag), 1, MAX_RECORDS_PER_TAG)
    ELSE recordsForTag

\* the history addRecordToHistory returns for the blob it reads
historyWithRecord(blob, mode, record, t) ==
    LET history == getCompletionHistory(blob, mode)
        newRecord == [record EXCEPT !.id = t]
        recordsForTag ==
            Append(IF record.energyTag \in DOMAIN history THEN history[record.energyTag] ELSE <<>>,
                   newRecord)
    IN [tag \in DOMAIN history \cup {record.energyTag} |->
           IF tag = record.energyTag THEN pruned(recordsForTag) ELSE history[tag]]

\* saveCompletionHistory
saveCompletionHistory(blob, mode, history) ==
    IF setFails(mode) THEN blob ELSE ObjectBlob(history)

StoreStep(op) == steps < MaxStoreSteps /\ steps' = steps + 1 /\ lastOp' = op

UnchangedCalendar ==
    UNCHANGED <<scheduleEvents, dndWindows, smartReminders, pauseUntil, conflict,
                changeHistory, activeReminders, renderedAt, now, nextId>>

\* handleNewCompletionRecord of the application, which calls addRecordToHistory
HandleNewCompletionRecord(record, isEnabled, mode) ==
    /\ IF ~isEnabled
       THEN /\ StoreStep(Op("learningDisabled", NoId, "", ""))
            /\ UNCHANGED <<storage, completionHistory, returned, nextId>>
       ELSE LET newHistory == historyWithRecord(storage, mode, record, nextId)
            IN /\ StoreStep(Op("addRecordToHistory", record.completedAt, record.energyTag, mode))
               /\ storage' = saveCompletionHistory(storage, mode, newHistory)
               /\ returned' = Returned("addRecordToHistory", newHistory)
               /\ completionHistory' = newHistory
               /\ nextId' = nextId + 1
    /\ UNCHANGED <<scheduleEvents, dndWindows, smartReminders, pauseUntil, conflict,
                   changeHistory, activeReminders, renderedAt, now>>

\* the application is opened: its state is initialised with getCompletionHistory()
ReadCompletionHistory(mode) ==
    /\ StoreStep(Op("getCompletionHistory", NoId, "", mode))
    /\ returned' = Returned("getCompletionHistory", getCompletionHistory(storage, mode))
    /\ completionHistory' = returned'.value
    /\ UNCHANGED storage
    /\ UnchangedCalendar

\* handleReset of the time learning settings, after the confirmation
HandleReset(mode) ==
    /\ StoreStep(Op("resetCompletionHistory", NoId, "", mode))
    /\ IF removeFails(mode)
       THEN /\ returned' = Raised("resetCompletionHistory")
            /\ UNCHANGED <<storage, completionHistory>>
       ELSE /\ storage' = NoBlob
            /\ returned' = Returned("resetCompletionHistory", <<>>)
            /\ completionHistory' = emptyHistory
    /\ UnchangedCalendar

\* n records of a tag with completion times 1..n, oldest first as appends
\* leave them, or newest first as a pruning leaves them
Filled(tag, n, newestFirst) ==
    [i \in 1..n |->
        CompletionRecord(i, 30, tag, IF newestFirst THEN n + 1 - i ELSE i, 3, Typical)]

\* the storage entries the application is opened with
InitialBlobs ==
    {NoBlob, UnparseableBlob, NullBlob,
     ObjectBlob(emptyHistory),
     ObjectBlob([tag \in {"Creative"} |-> Filled(tag, MAX_RECORDS_PER_TAG - 1, FALSE)]),
     ObjectBlob([emptyHistory EXCEPT !["Creative"] = Filled("Creative", MAX_RECORDS_PER_TAG, FALSE)]),
     ObjectBlob([tag \in EnergyTags \ {"Tedious"} |->
                    IF tag = "Creative" THEN Filled(tag, MAX_RECORDS_PER_TAG, TRUE) ELSE <<>>])}

\* completion records the application submits: older than, equal to and newer
\* than the stored ones
NewRecords ==
    {CompletionRecord(NoId, 45, "Creative", completedAt, 4, Harder) : completedAt \in {0, 50, 200}}
       \cup {CompletionRecord(NoId, 45, "Tedious", 200, 4, Harder)}

InitHistory ==
    /\ scheduleEvents = <<>>
    /\ dndWindows = <<>>
    /\ smartReminders = <<>>
    /\ pauseUntil = NoTime
    /\ conflict = NoConflict
    /\ changeHistory = <<>>
    /\ now = InitialClock
    /\ activeReminders = <<>>
    /\ renderedAt = now
    /\ nextId = MAX_RECORDS_PER_TAG + 1
    /\ storage \in InitialBlobs
    /\ completionHistory = getCompletionHistory(storage, StorageWorks)
    /\ returned = NoCall
    /\ steps = 0
    /\ lastOp = Op("mount", NoId, "", "")

NextHistory ==
    \/ \E record \in NewRecords, isEnabled \in BOOLEAN, mode \in StorageModes :
          HandleNewCompletionRecord(record, isEnabled, mode)
    \/ \E mode \in StorageModes : ReadCompletionHistory(mode)
    \/ \E mode \in StorageModes : HandleReset(mode)

SpecHistory == InitHistory /\ [][NextHistory]_vars

----------------------------------------------------------------------------
\* The personalised estimate (getPersonalizedEstimate)
\*
\* Durations are kept exactly, in twentieths of a minute: dividing by a
\* difficulty of 0.8, 1.0 or 1.25 multiplies by 25/20, 20/20 or 16/20.  The
\* sensitivity is the fraction a/q.

MinRecordsForEstimate == 5

NoEstimate == [isNull |-> TRUE, p50 |-> 0, p90 |-> 0, confidence |-> ""]

Estimate(p50, p90, confidence) ==
    [isNull |-> FALSE, p50 |-> p50, p90 |-> p90, confidence |-> confidence]

\* r.actualDurationMinutes / r.difficulty, in twentieths
adjustedDuration(r) == r.actualDurationMinutes * (400 \div r.difficulty)

RECURSIVE sum(_)
sum(q) == IF Len(q) = 0 THEN 0 ELSE Head(q) + sum(Tail(q))

\* faulty variant: the records are taken in the order they are stored in
sortChronologically_asStored(records) == records

\* [...relevantRecords].sort by completedAt ascending, stable
sortChronologically(records) ==
    LET n == Len(records)
        rank == <<>> \o [i \in 1..n |->
                    1 + Cardinality({j \in 1..n :
                           \/ records[j].completedAt < records[i].completedAt
                           \/ /\ records[j].completedAt = records[i].completedAt
                              /\ j < i})]
    IN <<>> \o [k \in 1..n |-> records[CHOOSE i \in 1..n : rank[i] = k]]

RECURSIVE gcd(_, _)
gcd(a, b) == IF b = 0 THEN a ELSE gcd(b, a % b)

\* the fraction num/den in lowest terms, num >= 0 and den > 0
Fraction(num, den) == [num |-> num \div gcd(num, den), den |-> den \div gcd(num, den)]

\* calculateEWMA: the average after the first k elements, as a fraction; the
\* reduce starts from data[0] and runs over every element
RECURSIVE ewma(_, _, _, _)
ewma(data, a, q, k) ==
    IF k = 0 THEN Fraction(data[1], 1)
    ELSE LET previous == ewma(data, a, q, k - 1)
         IN Fraction(a * data[k] * previous.den + (q - a) * previous.num, q * previous.den)

calculateEWMA(data, a, q) ==
    IF Len(data) = 0 THEN Fraction(0, 1) ELSE ewma(data, a, q, Len(data))

\* Math.round of the fraction num/den, den > 0
round(num, den) == (2 * num + den) \div (2 * den)

\* faulty variant: one record less is enough
hasTooFewRecords_offByOne(relevantRecords) == Len(relevantRecords) < MinRecordsForEstimate - 1

hasTooFewRecords(relevantRecords) == Len(relevantRecords) < MinRecordsForEstimate

\* Math.round(blendedP50 + 1.3 * stdDev) - blendedP50, for the variance
\* squares / (400 * n): the largest m with m - 0.5 <= 1.3 * stdDev
spread(squares, n, maxDeviation) ==
    LET candidates == {m \in 0..(2 + (13 * maxDeviation) \div 200) :
                          m = 0 \/ (2 * m - 1) * (2 * m - 1) * 10000 * n <= 169 * squares}
    IN CHOOSE m \in candidates : \A x \in candidates : x <= m

\* faulty variant: the thresholds belong to the lower level
confidenceOf_inclusive(n) == IF n <= 10 THEN "low" ELSE IF n <= 25 THEN "medium" ELSE "high"

confidenceOf(n) == IF n < 10 THEN "low" ELSE IF n < 25 THEN "medium" ELSE "high"

max(a, b) == IF a >= b THEN a ELSE b

\* faulty variant: the floor of P90 is taken from the unfloored P50
finalP90_fromBlended(blendedP50, blendedP90) == max(blendedP50 + 5, blendedP90)

finalP90(blendedP50, blendedP90) == max(max(5, blendedP50) + 5, blendedP90)

getPersonalizedEstimate(history, energyTag, subStepCount, sensitivity) ==
    LET relevantRecords == IF energyTag \in DOMAIN history THEN history[energyTag] ELSE <<>>
        n == Len(relevantRecords)
        adjustedDurations == [i \in 1..n |-> adjustedDuration(relevantRecords[i])]
        totalAdjustedMinutes == sum(adjustedDurations)
        totalSubSteps == sum([i \in 1..n |-> relevantRecords[i].subStepCount])
        sortedRecords == sortChronologically(relevantRecords)
        recent == calculateEWMA([i \in 1..n |-> adjustedDuration(sortedRecords[i])],
                                sensitivity.a, sensitivity.q)
        \* complexityBasedEstimate * 0.5 + recentPerformanceEstimate * 0.5
        blendedP50 == round(totalAdjustedMinutes * subStepCount * recent.den
                               + recent.num * totalSubSteps,
                            40 * totalSubSteps * recent.den)
        deviations == [i \in 1..n |->
                          IF adjustedDurations[i] >= 20 * blendedP50
                          THEN adjustedDurations[i] - 20 * blendedP50
                          ELSE 20 * blendedP50 - adjustedDurations[i]]
        squares == sum([i \in 1..n |-> deviations[i] * deviations[i]])
        maxDeviation == CHOOSE d \in Range(deviations) : \A x \in Range(deviations) : x <= d
        blendedP90 == blendedP50 + spread(squares, n, maxDeviation)
    IN IF hasTooFewRecords(relevantRecords) THEN NoEstimate
       ELSE IF totalSubSteps = 0 THEN NoEstimate
       ELSE Estimate(max(5, blendedP50), finalP90(blendedP50, blendedP90), confidenceOf(n))

----------------------------------------------------------------------------
\* Estimates asked of a history that grows by completed chunks (MomentumMap)

\* the sensitivities of the time learning settings, as fractions a/q
Sensitivities == {[a |-> 1, q |-> 2], [a |-> 1, q |-> 5]}

\* chunk.subSteps.length of the chunk the estimate is asked for
SubStepCounts == {0, 1, 3}

\* a category of records: each entry is <<actualDurationMinutes, completedAt,
\* subStepCount, difficulty>>, ids counted from firstId
Category(tag, entries, firstId) ==
    [i \in 1..Len(entries) |->
        CompletionRecord(firstId + i - 1, entries[i][1], tag, entries[i][2],
                         entries[i][3], entries[i][4])]

\* five records of short chunks
ShortChunks ==
    { << <<1, 1, 1, Typical>>, <<1, 2, 1, Typical>>, <<2, 3, 1, Easier>>,
         <<1, 4, 2, Harder>>, <<1, 5, 1, Typical>> >>,
      << <<3, 1, 1, Harder>>, <<9, 2, 2, Easier>>, <<2, 3, 1, Typical>>,
         <<4, 4, 3, Typical>>, <<1, 5, 1, Easier>> >>,
      << <<6, 1, 2, Typical>>, <<7, 2, 2, Harder>>, <<5, 3, 2, Easier>>,
         <<8, 4, 2, Typical>>, <<6, 5, 2, Typical>> >> }

\* six records of long chunks, not stored in the order of their completion
LongChunks ==
    { << <<30, 6, 4, Typical>>, <<12, 2, 3, Easier>>, <<25, 4, 5, Harder>>,
         <<18, 1, 2, Typical>>, <<30, 5, 6, Easier>>, <<5, 3, 1, Harder>> >>,
      << <<20, 3, 4, Typical>>, <<20, 1, 4, Typical>>, <<20, 2, 4, Typical>>,
         <<20, 6, 4, Typical>>, <<20, 5, 4, Typical>>, <<20, 4, 4, Typical>> >>,
      << <<1, 6, 8, Harder>>, <<30, 5, 1, Easier>>, <<1, 4, 8, Harder>>,
         <<30, 3, 1, Easier>>, <<1, 2, 8, Harder>>, <<30, 1, 1, Easier>> >>,
      << <<50, 1, 3, Typical>>, <<55, 2, 3, Typical>>, <<60, 3, 3, Typical>>,
         <<58, 4, 3, Typical>>, <<62, 5, 3, Typical>>, <<57, 6, 3, Typical>> >> }

\* four records, one short of an estimate
FourRecords ==
    << <<10, 1, 2, Typical>>, <<15, 2, 3, Easier>>, <<8, 3, 2, Harder>>, <<12, 4, 2, Typical>> >>

\* five records of chunks without sub-steps
WithoutSubSteps ==
    << <<10, 1, 0, Typical>>, <<5, 2, 0, Easier>>, <<8, 3, 0, Harder>>,
       <<12, 4, 0, Typical>>, <<7, 5, 0, Typical>> >>

\* n records of the same chunk, completed one after the other
Uniform(n) == [i \in 1..n |-> <<20, i, 4, Typical>>]

\* sizes of the category that stands next to a confidence threshold
ErrandSizes == {0, 9, 24}

EstimateHistories ==
    { [tag \in EnergyTags |->
          CASE tag = "Creative" -> Category(tag, FourRecords, 1)
            [] tag = "Tedious"  -> Category(tag, WithoutSubSteps, 11)
            [] tag = "Admin"    -> Category(tag, short, 21)
            [] tag = "Social"   -> Category(tag, long, 31)
            [] OTHER            -> Category(tag, Uniform(size), 41)] :
      short \in ShortChunks, long \in LongChunks, size \in ErrandSizes }

\* handleFeedbackSubmit: the record of a chunk completed now
CompletedChunks ==
    { CompletionRecord(NoId, 14, "Creative", nextId, 3, Typical),
      CompletionRecord(NoId, 2, "Creative", nextId, 0, Easier),
      CompletionRecord(NoId, 6, "Tedious", nextId, 2, Harder),
      CompletionRecord(NoId, 3, "Errand", nextId, 1, Typical) }

\* the estimate shown for a chunk
GetPersonalizedEstimate(energyTag, subStepCount, sensitivity) ==
    /\ StoreStep(Op("getPersonalizedEstimate", subStepCount, energyTag, sensitivity))
    /\ returned' = Returned("getPersonalizedEstimate",
                            getPersonalizedEstimate(completionHistory, energyTag,
                                                    subStepCount, sensitivity))
    /\ UNCHANGED <<storage, completionHistory>>
    /\ UnchangedCalendar

InitEstimate ==
    /\ scheduleEvents = <<>>
    /\ dndWindows = <<>>
    /\ smartReminders = <<>>
    /\ pauseUntil = NoTime
    /\ conflict = NoConflict
    /\ changeHistory = <<>>
    /\ now = InitialClock
    /\ activeReminders = <<>>
    /\ renderedAt = now
    /\ nextId = MAX_RECORDS_PER_TAG + 1
    /\ \E history \in EstimateHistories : storage = ObjectBlob(history)
    /\ completionHistory = getCompletionHistory(storage, StorageWorks)
    /\ returned = NoCall
    /\ steps = 0
    /\ lastOp = Op("mount", NoId, "", "")

NextEstimate ==
    \/ \E energyTag \in EnergyTags, subStepCount \in SubStepCounts,
          sensitivity \in Sensitivities :
          GetPersonalizedEstimate(energyTag, subStepCount, sensitivity)
    \/ \E record \in CompletedChunks : HandleNewCompletionRecord(record, TRUE, StorageWorks)

SpecEstimate == InitEstimate /\ [][NextEstimate]_vars

----------------------------------------------------------------------------
\* The time helpers applied to the times an anchor can carry

\* hour and minute of every time of day
ClockTimes == (0..23) \X (0..59)

\* the times the intervals are drawn from
IntervalTimes == {<<0, 0>>, <<9, 0>>, <<9, 30>>, <<10, 0>>, <<11, 0>>, <<23, 59>>}

\* the "HH:MM" string of an hour and minute pair
TimeString(hm) == T(hm[1], hm[2])

UnchangedByHelpers ==
    /\ UnchangedCalendar
    /\ UNCHANGED <<storage, completionHistory, steps>>

\* a time is written to its minutes and read back
RoundTrip ==
    /\ lastOp.name = "time"
    /\ lastOp' = [lastOp EXCEPT !.name = "minutesToTime"]
    /\ returned' = Returned("minutesToTime",
                            minutesToTime(timeToMinutes(TimeString(lastOp.arg))))
    /\ UnchangedByHelpers

\* two intervals are compared
CompareIntervals ==
    /\ lastOp.name = "intervals"
    /\ lastOp' = [lastOp EXCEPT !.name = "doTimesOverlap"]
    /\ returned' = Returned("doTimesOverlap",
                            doTimesOverlap(TimeString(lastOp.arg[1]), TimeString(lastOp.arg[2]),
                                           TimeString(lastOp.arg[3]), TimeString(lastOp.arg[4])))
    /\ UnchangedByHelpers

InitTimes ==
    /\ scheduleEvents = <<>>
    /\ dndWindows = <<>>
    /\ smartReminders = <<>>
    /\ pauseUntil = NoTime
    /\ conflict = NoConflict
    /\ changeHistory = <<>>
    /\ now = InitialClock
    /\ activeReminders = <<>>
    /\ renderedAt = now
    /\ nextId = 1
    /\ AnalyticsAtMount
    /\ steps = 0
    /\ \/ \E time \in ClockTimes : lastOp = Op("time", NoId, "", time)
       \/ \E startA \in IntervalTimes, endA \in IntervalTimes,
             startB \in IntervalTimes, endB \in IntervalTimes :
             lastOp = Op("intervals", NoId, "", <<startA, endA, startB, endB>>)

NextTimes ==
    \/ RoundTrip
    \/ CompareIntervals

SpecTimes == InitTimes /\ [][NextTimes]_vars

----------------------------------------------------------------------------
\* Vocabulary of the properties

\* end time minus start time, in minutes
Duration(e) == timeToMinutes(e.endTime) - timeToMinutes(e.startTime)

\* minute of the day tod lies in window w, which wraps past midnight when its
\* end is earlier than its start
WindowContains(w, tod) ==
    IF timeToMinutes(w.endTime) < timeToMinutes(w.startTime)
    THEN tod >= timeToMinutes(w.startTime) \/ tod < timeToMinutes(w.endTime)
    ELSE tod >= timeToMinutes(w.startTime) /\ tod < timeToMinutes(w.endTime)

\* some minute of anchor e lies in window w
RangeIntersectsWindow(e, w) ==
    \E tod \in timeToMinutes(e.startTime)..(timeToMinutes(e.endTime) - 1) : WindowContains(w, tod)

HasEvent(events, id) == EventIndex(events, id) # 0

EventOf(events, id) == events[EventIndex(events, id)]

\* this step is handleDrop of an existing anchor onto another day
IsDropOnOtherDay ==
    /\ lastOp'.name = "handleDrop"
    /\ HasEvent(scheduleEvents, lastOp'.eventId)
    /\ EventOf(scheduleEvents, lastOp'.eventId).day # lastOp'.day

\* the anchor handleDrop is called with in this step
Dropped == EventOf(scheduleEvents, lastOp'.eventId)

\* this step is resolveConflict with a conflict pending
IsResolve(decision) ==
    /\ lastOp'.name = "resolveConflict"
    /\ lastOp'.arg = decision
    /\ conflict # NoConflict

----------------------------------------------------------------------------
\* C5: every move of an anchor (plain move, shift to the end of an overlapping
\* anchor, shift to the DND window's end, keep-overlap) leaves its duration
\* (end minus start, in minutes) as it was, also when start + duration reaches
\* or passes 24:00.
C5_MovePreservesDuration ==
    [][lastOp'.name \in {"handleDrop", "resolveConflict"} =>
          \A i \in 1..Len(scheduleEvents) :
             HasEvent(scheduleEvents', scheduleEvents[i].id) =>
                Duration(EventOf(scheduleEvents', scheduleEvents[i].id)) = Duration(scheduleEvents[i])]_vars

\* C6: an anchor dropped on another day whose time range intersects that
\* day's DND window (same-day or overnight) raises a DND conflict and is not
\* moved by the drop.
C6_DropInsideDndRaisesConflict ==
    [][(/\ IsDropOnOtherDay
        /\ Duration(Dropped) > 0
        /\ DndIndex(dndWindows, lastOp'.day) # 0
        /\ RangeIntersectsWindow(Dropped, dndWindows[DndIndex(dndWindows, lastOp'.day)]))
       => /\ conflict'.type = "dnd"
          /\ conflict'.eventToMoveId = lastOp'.eventId
          /\ conflict'.targetDay = lastOp'.day
          /\ scheduleEvents' = scheduleEvents]_vars

\* anchor e of the array events overlaps another anchor of its day or the DND
\* window of its day, by the overlap test of the conflict check
OverlapsOnItsDay(e, events, windows) ==
    \/ \E j \in 1..Len(events) :
          /\ events[j].id # e.id
          /\ events[j].day = e.day
          /\ doTimesOverlap(e.startTime, e.endTime, events[j].startTime, events[j].endTime)
    \/ /\ DndIndex(windows, e.day) # 0
       /\ doTimesOverlap(e.startTime, e.endTime,
                         windows[DndIndex(windows, e.day)].startTime,
                         windows[DndIndex(windows, e.day)].endTime)

\* anchor e is on its day in the new schedule and was not on it before
PlacedByThisStep(e) ==
    \/ ~HasEvent(scheduleEvents, e.id)
    \/ EventOf(scheduleEvents, e.id).day # e.day

DroppedOverlapsAnchor ==
    \E j \in 1..Len(scheduleEvents) :
       /\ scheduleEvents[j].day = lastOp'.day
       /\ scheduleEvents[j].id # Dropped.id
       /\ doTimesOverlap(Dropped.startTime, Dropped.endTime,
                         scheduleEvents[j].startTime, scheduleEvents[j].endTime)

\* C8: the DND check comes before the overlap check and one conflict is
\* surfaced: an anchor dropped on another day whose range intersects both that
\* day's DND window and another anchor of that day leaves a pending conflict
\* of type DND that names no overlapping anchor; a resolution clears the
\* pending conflict and raises no further one.
C8_DndConflictTakesPrecedence ==
    [][/\ (/\ IsDropOnOtherDay
           /\ Duration(Dropped) > 0
           /\ DndIndex(dndWindows, lastOp'.day) # 0
           /\ RangeIntersectsWindow(Dropped, dndWindows[DndIndex(dndWindows, lastOp'.day)])
           /\ DroppedOverlapsAnchor)
          => /\ conflict'.type = "dnd"
             /\ conflict'.eventToMoveId = lastOp'.eventId
             /\ conflict'.overlappingEventId = NoId
       /\ lastOp'.name = "resolveConflict" => conflict' = NoConflict]_vars

\* C9: a drop on another day that raises no DND conflict and finds the anchor
\* overlapping an anchor of that day changes no anchor and leaves an overlap
\* conflict naming an anchor that is on the target day, is not the dropped
\* anchor and overlaps it; "shift to avoid", with both anchors still in the
\* schedule, puts the moved anchor on the target day with the named anchor's
\* end time as start time.
C9_OverlapConflictAndShift ==
    [][/\ (/\ IsDropOnOtherDay
           /\ ~dropHitsDnd(Dropped, dndWindows, lastOp'.day)
           /\ DroppedOverlapsAnchor)
          => /\ scheduleEvents' = scheduleEvents
             /\ conflict'.type = "overlap"
             /\ conflict'.eventToMoveId = lastOp'.eventId
             /\ conflict'.targetDay = lastOp'.day
             /\ HasEvent(scheduleEvents, conflict'.overlappingEventId)
             /\ conflict'.overlappingEventId # lastOp'.eventId
             /\ LET named == EventOf(scheduleEvents, conflict'.overlappingEventId)
                IN /\ named.day = lastOp'.day
                   /\ doTimesOverlap(Dropped.startTime, Dropped.endTime,
                                     named.startTime, named.endTime)
       /\ (/\ IsResolve("shift_overlap")
           /\ conflict.type = "overlap"
           /\ HasEvent(scheduleEvents, conflict.eventToMoveId)
           /\ HasEvent(scheduleEvents, conflict.overlappingEventId))
          => /\ HasEvent(scheduleEvents', conflict.eventToMoveId)
             /\ EventOf(scheduleEvents', conflict.eventToMoveId).day = conflict.targetDay
             /\ EventOf(scheduleEvents', conflict.eventToMoveId).startTime
                   = EventOf(scheduleEvents, conflict.overlappingEventId).endTime
             /\ EventOf(scheduleEvents', conflict.overlappingEventId)
                   = EventOf(scheduleEvents, conflict.overlappingEventId)]_vars

\* C9 witness: "shift to avoid" has just moved an anchor to the day of the
\* anchor it overlapped, to start at that anchor's end
C9_ShiftedBehindAnchor ==
    /\ lastOp.name = "resolveConflict"
    /\ lastOp.arg = "shift_overlap"
    /\ Len(changeHistory) > 0
    /\ changeHistory[1].kind = "events"
    /\ changeHistory[1].snap # scheduleEvents
    /\ HasEvent(changeHistory[1].snap, lastOp.eventId)
    /\ EventOf(changeHistory[1].snap, lastOp.eventId).day # lastOp.day
    /\ EventOf(scheduleEvents, lastOp.eventId).day = lastOp.day
    /\ \E j \in 1..Len(scheduleEvents) :
          /\ scheduleEvents[j].id # lastOp.eventId
          /\ scheduleEvents[j].day = lastOp.day
          /\ scheduleEvents[j].endTime = EventOf(scheduleEvents, lastOp.eventId).startTime
          /\ doTimesOverlap(EventOf(changeHistory[1].snap, lastOp.eventId).startTime,
                            EventOf(changeHistory[1].snap, lastOp.eventId).endTime,
                            scheduleEvents[j].startTime, scheduleEvents[j].endTime)

\* C10: resolving a pending conflict whose anchor-to-move is no longer in the
\* schedule changes no anchor, records no change and clears the pending
\* conflict; "shift to avoid" with the named overlapping anchor gone does the
\* same.
C10_ResolveToleratesMissingAnchor ==
    [][/\ (/\ lastOp'.name = "resolveConflict"
           /\ conflict # NoConflict
           /\ ~HasEvent(scheduleEvents, conflict.eventToMoveId))
          => /\ scheduleEvents' = scheduleEvents
             /\ changeHistory' = changeHistory
             /\ conflict' = NoConflict
       /\ (/\ IsResolve("shift_overlap")
           /\ ~HasEvent(scheduleEvents, conflict.overlappingEventId))
          => /\ scheduleEvents' = scheduleEvents
             /\ changeHistory' = changeHistory
             /\ conflict' = NoConflict]_vars

\* C10 witness: a conflict was resolved after its anchor-to-move had been
\* removed by an undo
C10_ResolvedWithoutAnchor ==
    /\ lastOp.name = "resolveConflict"
    /\ lastOp.eventId # NoId
    /\ ~HasEvent(scheduleEvents, lastOp.eventId)
    /\ conflict = NoConflict

----------------------------------------------------------------------------
\* Properties of the reminder list.  The list is the one the engine produced
\* at time renderedAt; "today" and "now" are those of that time.

\* index of today's DND window, 0 when there is none
TodaysWindow == DndIndex(dndWindows, todayDay(renderedAt))

\* the trigger time of a list entry before the DND step
Unshifted(entry) == unshiftedTriggerTime(entry.reminder, entry.event, renderedAt)

\* the end of the occurrence of today's window w that holds timestamp x, or
\* NoTime when x lies in no occurrence of w that touches the day of t; the
\* occurrences are half-open, and an overnight window has two of them, the one
\* that ends today and the one that starts today
OccurrenceEnd(x, w, t) ==
    LET day == startOfDay(t)
        ws == timeToMinutes(w.startTime)
        we == timeToMinutes(w.endTime)
    IN IF we < ws
       THEN IF x >= day + ws - MinutesPerDay /\ x < day + we THEN day + we
            ELSE IF x >= day + ws /\ x < day + we + MinutesPerDay THEN day + we + MinutesPerDay
            ELSE NoTime
       ELSE IF x >= day + ws /\ x < day + we THEN day + we
            ELSE NoTime

InsideTodaysDnd(x) ==
    /\ TodaysWindow # 0
    /\ OccurrenceEnd(x, dndWindows[TodaysWindow], renderedAt) # NoTime

\* C1: no reminder of the active list has a resolved trigger time inside
\* today's DND window, same-day or overnight; a trigger that would fall inside
\* it is listed at the window's end.
C1_NoTriggerInsideDnd ==
    \A i \in 1..Len(activeReminders) :
       /\ ~InsideTodaysDnd(activeReminders[i].triggerTime)
       /\ InsideTodaysDnd(Unshifted(activeReminders[i])) =>
             activeReminders[i].triggerTime
                = OccurrenceEnd(Unshifted(activeReminders[i]), dndWindows[TodaysWindow], renderedAt)

\* C2: for an overnight window (end earlier than start) the engine treats a
\* trigger as inside the window exactly when its time of day t has
\* t >= start or t < end, whatever the current time is.
C2_OvernightContainment ==
    \A i \in 1..Len(activeReminders) :
       (/\ TodaysWindow # 0
        /\ timeToMinutes(dndWindows[TodaysWindow].endTime)
              < timeToMinutes(dndWindows[TodaysWindow].startTime))
       => ((activeReminders[i].shiftedReason = DndShifted)
              <=> WindowContains(dndWindows[TodaysWindow],
                                 Unshifted(activeReminders[i]) % MinutesPerDay))

\* C3: a listed reminder is tagged "shifted" and listed at the window's end
\* exactly when its unshifted trigger time lies inside today's DND window,
\* half-open [start, end); a trigger at the window's end or outside the window
\* keeps its time and is not tagged.
C3_ShiftedIffInsideHalfOpen ==
    \A i \in 1..Len(activeReminders) :
       IF InsideTodaysDnd(Unshifted(activeReminders[i]))
       THEN /\ activeReminders[i].shiftedReason = DndShifted
            /\ activeReminders[i].triggerTime
                  = OccurrenceEnd(Unshifted(activeReminders[i]), dndWindows[TodaysWindow], renderedAt)
       ELSE /\ activeReminders[i].shiftedReason = NotShifted
            /\ activeReminders[i].triggerTime = Unshifted(activeReminders[i])

\* the list the engine computes without the pause pre-filter
UnpausedList ==
    sortByTrigger(mapAndFilter(smartReminders, scheduleEvents, dndWindows, renderedAt))

\* C4: while a pause-until timestamp is set and lies in the future the active
\* list is empty, whatever the anchors, reminders, statuses and DND windows
\* are; a list computed with the timestamp cleared or passed is the unpaused
\* one.
C4_PauseSuppressesList ==
    /\ (pauseUntil # NoTime /\ now < pauseUntil) => activeReminders = <<>>
    /\ (pauseUntil = NoTime \/ renderedAt >= pauseUntil) => activeReminders = UnpausedList

\* C4 witness: reminders are due, the pause lies in the future and the list is empty
C4_PausedWithRemindersDue ==
    /\ pauseUntil # NoTime
    /\ now < pauseUntil
    /\ Len(UnpausedList) > 0
    /\ activeReminders = <<>>

----------------------------------------------------------------------------
\* the reminders whose anchor exists
WithoutDangling ==
    LET Live(r) == HasEvent(scheduleEvents, r.eventId)
    IN SelectSeq(smartReminders, Live)

\* C11: a reminder whose anchor reference matches no existing anchor is not in
\* the active list, and the list is exactly the one computed from the other
\* reminders alone.
C11_DanglingReminderIsSkipped ==
    /\ \A i \in 1..Len(activeReminders) :
          HasEvent(scheduleEvents, activeReminders[i].reminder.eventId)
    /\ activeReminders
          = computeActiveReminders(WithoutDangling, scheduleEvents, dndWindows, pauseUntil, renderedAt)

\* C11 witness: a reminder that would be listed but for its missing anchor
\* precedes, in the reminder list, one that is listed
C11_ListedBehindDangling ==
    \E i \in 1..Len(smartReminders), j \in 1..Len(smartReminders) :
       /\ i < j
       /\ hasListedStatus(smartReminders[i])
       /\ ~HasEvent(scheduleEvents, smartReminders[i].eventId)
       /\ \E k \in 1..Len(activeReminders) : activeReminders[k].reminder.id = smartReminders[j].id

----------------------------------------------------------------------------
\* the Active reminders with a live anchor whose computed trigger time, anchor
\* start on the day of the computation plus offset, lies before the computation
PastDueActive ==
    {i \in 1..Len(smartReminders) :
        /\ smartReminders[i].status = Active
        /\ HasEvent(scheduleEvents, smartReminders[i].eventId)
        /\ baseTriggerTime(smartReminders[i],
                           EventOf(scheduleEvents, smartReminders[i].eventId),
                           renderedAt) < renderedAt}

IsListed(id) == \E k \in 1..Len(activeReminders) : activeReminders[k].reminder.id = id

\* C12: an Active reminder whose computed trigger time is earlier than the
\* time of the computation is absent from the active list, inside today's DND
\* window or not, and every Active reminder of the list has a resolved trigger
\* time not earlier than that time.
C12_PastDueActiveIsDropped ==
    /\ \A i \in PastDueActive : ~IsListed(smartReminders[i].id)
    /\ \A k \in 1..Len(activeReminders) :
          activeReminders[k].reminder.status = Active
             => activeReminders[k].triggerTime >= renderedAt

\* C12 witness: the list is not suppressed and leaves out an Active reminder
\* whose past trigger time lies in an occurrence of today's DND window that
\* ends after the time of the computation
C12_PastDueInsideDndDropped ==
    /\ ~isPausedAt(pauseUntil, renderedAt)
    /\ \E i \in PastDueActive :
          LET x == baseTriggerTime(smartReminders[i],
                                   EventOf(scheduleEvents, smartReminders[i].eventId),
                                   renderedAt)
          IN /\ InsideTodaysDnd(x)
             /\ OccurrenceEnd(x, dndWindows[TodaysWindow], renderedAt) > renderedAt
             /\ ~IsListed(smartReminders[i].id)

----------------------------------------------------------------------------
\* C13: the active list is ordered by non-decreasing resolved trigger time,
\* the time after snooze override and DND shift.
C13_ListIsSortedByTrigger ==
    \A i \in 1..Len(activeReminders), j \in 1..Len(activeReminders) :
       i < j => activeReminders[i].triggerTime <= activeReminders[j].triggerTime

\* C13 witness: the list holds two reminders in the reverse of their order in
\* the reminder list, the first of them at a snoozed or DND-shifted time
C13_ReorderedByResolvedTime ==
    \E i \in 1..Len(activeReminders), j \in 1..Len(activeReminders) :
       /\ i < j
       /\ ReminderIndex(smartReminders, activeReminders[i].reminder.id)
             > ReminderIndex(smartReminders, activeReminders[j].reminder.id)
       /\ activeReminders[i].triggerTime < activeReminders[j].triggerTime
       /\ \/ activeReminders[j].shiftedReason = DndShifted
          \/ activeReminders[j].reminder.status = Snoozed

----------------------------------------------------------------------------
\* the actions a reminder card offers, and "ignore"
StatusActions == {"snooze", "later", "pause", "done", "ignore", "toggle_lock"}

\* this step is handleReminderAction with one of these actions on an existing reminder
IsReminderAction(actions) ==
    /\ lastOp'.name \in actions
    /\ ReminderIndex(smartReminders, lastOp'.eventId) # 0

\* the reminder with this id, before and after the step
Before(id) == smartReminders[ReminderIndex(smartReminders, id)]
After(id) == smartReminders'[ReminderIndex(smartReminders', id)]

\* C14: a reminder whose status is Done or Ignored keeps that status under
\* every later reminder action (snooze, later, pause, done, ignore, lock
\* toggle) and stays out of the active list; the action that makes a reminder
\* Done appends one "success" to its successHistory, the one that makes it
\* Ignored one "ignored".
C14_DoneAndIgnoredAreTerminal ==
    [][IsReminderAction(StatusActions) =>
          LET id == lastOp'.eventId
          IN /\ Before(id).status \in {Done, Ignored} =>
                   /\ After(id).status = Before(id).status
                   /\ \A k \in 1..Len(activeReminders') : activeReminders'[k].reminder.id # id
             /\ (Before(id).status # Done /\ After(id).status = Done) =>
                   After(id).successHistory = Append(Before(id).successHistory, "success")
             /\ (Before(id).status # Ignored /\ After(id).status = Ignored) =>
                   After(id).successHistory = Append(Before(id).successHistory, "ignored")
      ]_vars

----------------------------------------------------------------------------
\* C15: every reminder state transition (snooze, done, ignore, later, pause,
\* lock toggle) puts a change at the head of the change history whose undo
\* restores the reminder list as it was before the transition.
C15_TransitionRecordsUndo ==
    [][IsReminderAction(StatusActions) =>
          /\ Len(changeHistory') >= 1
          /\ changeHistory'[1] = RemindersChange(smartReminders)
          /\ \A k \in 2..Len(changeHistory') : changeHistory'[k] = changeHistory[k - 1]
      ]_vars

----------------------------------------------------------------------------
\* p holds no record twice, and q holds the records of p except r
IsWithoutOne(q, p, r) ==
    /\ Cardinality(Range(p)) = Len(p)
    /\ Len(q) = Len(p) - 1
    /\ Range(q) = Range(p) \ {r}

\* the records of earliest completion time
Earliest(records) ==
    LET times == {r.completedAt : r \in records}
        first == CHOOSE m \in times : \A x \in times : m <= x
    IN {r \in records : r.completedAt = first}

\* no category of the stored history and of the history in the application
\* state holds more than the cap
WithinCap ==
    /\ storage.kind = "object" =>
          \A tag \in DOMAIN storage.data : Len(storage.data[tag]) <= MAX_RECORDS_PER_TAG
    /\ \A tag \in EnergyTags : Len(completionHistory[tag]) <= MAX_RECORDS_PER_TAG

\* this step is addRecordToHistory with a storage that can be read
IsAppend ==
    /\ lastOp'.name = "addRecordToHistory"
    /\ ~getFails(lastOp'.arg)

\* C16: starting from a store within the cap, every category holds at most
\* 100 records after any appends; appending to a category that holds exactly
\* 100 leaves exactly 100, and what is kept is the 101 records without one of
\* earliest completion time.
C16_AppendKeepsMostRecentHundred ==
    /\ []WithinCap
    /\ [][IsAppend =>
             LET tag == lastOp'.day
                 before == getCompletionHistory(storage, StorageWorks)[tag]
                 after == returned'.value[tag]
                 all == Append(before, CompletionRecord(nextId, 45, tag, lastOp'.eventId, 4, Harder))
             IN Len(before) = MAX_RECORDS_PER_TAG =>
                   /\ Len(after) = MAX_RECORDS_PER_TAG
                   /\ Len(getCompletionHistory(storage', StorageWorks)[tag]) = MAX_RECORDS_PER_TAG
                   /\ \E r \in Earliest(Range(all)) : IsWithoutOne(after, all, r)
      ]_vars

\* C16 witness: an append to a full category pruned it: the new record, the
\* most recent one, heads the 100 records kept and the earliest one is gone
C16_PrunedToTheCap ==
    /\ lastOp.name = "addRecordToHistory"
    /\ returned.op = "addRecordToHistory"
    /\ Len(returned.value["Creative"]) = MAX_RECORDS_PER_TAG
    /\ returned.value["Creative"][1].completedAt = 200
    /\ \A i \in 1..MAX_RECORDS_PER_TAG : returned.value["Creative"][i].completedAt # 1
    /\ storage = ObjectBlob(returned.value)

----------------------------------------------------------------------------
\* C17: reading the completion history never raises and returns a mapping
\* with every energy tag: a tag the stored object lacks is an empty list, a
\* tag it has keeps its records, and a missing entry, an entry that does not
\* parse or a failing storage read give the mapping with every tag empty.
C17_ReadReturnsEveryTag ==
    [][lastOp'.name = "getCompletionHistory" =>
          /\ ~returned'.raised
          /\ DOMAIN returned'.value = EnergyTags
          /\ IF storage.kind = "object" /\ ~getFails(lastOp'.arg)
             THEN \A tag \in EnergyTags :
                     returned'.value[tag]
                        = IF tag \in DOMAIN storage.data THEN storage.data[tag] ELSE <<>>
             ELSE \A tag \in EnergyTags : returned'.value[tag] = <<>>
      ]_vars

\* C17 witness: a read of a stored object that has records of one tag and
\* lacks another tag
C17_ReadFilledTheMissingTag ==
    /\ lastOp.name = "getCompletionHistory"
    /\ storage.kind = "object"
    /\ "Tedious" \notin DOMAIN storage.data
    /\ returned.value["Tedious"] = <<>>
    /\ Len(returned.value["Creative"]) > 0

----------------------------------------------------------------------------
\* C18: no operation of the history store lets a storage failure reach its
\* caller: with a failing get, set or remove, append still returns the
\* in-memory history with the new record (or a full category, when the
\* pruning dropped it), read returns the empty mapping and reset does nothing.
C18_StorageFailureIsContained ==
    [][lastOp'.name \in {"addRecordToHistory", "getCompletionHistory", "resetCompletionHistory"} =>
          /\ ~returned'.raised
          /\ (lastOp'.name = "addRecordToHistory" /\ setFails(lastOp'.arg)) =>
                /\ storage' = storage
                /\ \/ \E i \in 1..Len(returned'.value[lastOp'.day]) :
                         returned'.value[lastOp'.day][i].id = nextId
                   \/ Len(returned'.value[lastOp'.day]) = MAX_RECORDS_PER_TAG
          /\ (lastOp'.name = "getCompletionHistory" /\ getFails(lastOp'.arg)) =>
                returned'.value = emptyHistory
          /\ (lastOp'.name = "resetCompletionHistory" /\ removeFails(lastOp'.arg)) =>
                storage' = storage
      ]_vars


\* the state follows a call of getPersonalizedEstimate
IsEstimate == lastOp.name = "getPersonalizedEstimate"

\* the records of the category the estimate was asked for
EstimatedCategory == completionHistory[lastOp.day]

TotalSubSteps(records) == sum([i \in 1..Len(records) |-> records[i].subStepCount])

\* C19: whatever the sub-step count and the sensitivity, no estimate is
\* returned for a category with fewer than 5 records, and none for a category
\* whose records have no sub-steps in total.
C19_NoEstimateFromTooLittleHistory ==
    IsEstimate
    => /\ Len(EstimatedCategory) < 5 => returned.value.isNull
       /\ TotalSubSteps(EstimatedCategory) = 0 => returned.value.isNull

\* an estimate was refused for a category of four records with sub-steps
C19_RefusedWithFourRecords ==
    /\ IsEstimate
    /\ Len(EstimatedCategory) = 4
    /\ TotalSubSteps(EstimatedCategory) > 0
    /\ lastOp.eventId > 0
    /\ returned.value.isNull

\* C20: every estimate that is returned has a P50 of at least 5 minutes and a
\* P90 at least 5 minutes above its P50, for every history, sensitivity and
\* sub-step count of the chunk, 0 included.
C20_EstimateKeepsFloors ==
    (IsEstimate /\ ~returned.value.isNull)
    => /\ returned.value.p50 >= 5
       /\ returned.value.p90 >= returned.value.p50 + 5

\* an estimate for a chunk without sub-steps sits on both floors
C20_FlooredEstimate ==
    /\ IsEstimate
    /\ lastOp.eventId = 0
    /\ ~returned.value.isNull
    /\ returned.value.p50 = 5
    /\ returned.value.p90 = 10


\* C21: the confidence of an estimate is decided by the number of records of
\* the category alone: low below 10 records, medium below 25, high from 25 on.
C21_ConfidenceFollowsRecordCount ==
    (IsEstimate /\ ~returned.value.isNull)
    => LET n == Len(EstimatedCategory)
       IN /\ n >= 5
          /\ (n < 10) <=> (returned.value.confidence = "low")
          /\ (n >= 10 /\ n < 25) <=> (returned.value.confidence = "medium")
          /\ (n >= 25) <=> (returned.value.confidence = "high")

\* an estimate of high confidence from a category grown to 25 records
C21_HighFromTwentyFive ==
    /\ IsEstimate
    /\ Len(EstimatedCategory) = 25
    /\ ~returned.value.isNull
    /\ returned.value.confidence = "high"


\* minutes since midnight of an hour and minute pair
MinuteOfDay(hm) == hm[1] * 60 + hm[2]

\* the four times of the last comparison
StartA == lastOp.arg[1]
EndA == lastOp.arg[2]
StartB == lastOp.arg[3]
EndB == lastOp.arg[4]

\* C22: two intervals overlap exactly when each starts before the other ends,
\* in minutes since midnight; the answer is the same for the intervals
\* swapped, and intervals that only touch do not overlap.
C22_OverlapIsStrictAndSymmetric ==
    lastOp.name = "doTimesOverlap"
    => /\ returned.value
          <=> (MinuteOfDay(StartA) < MinuteOfDay(EndB) /\ MinuteOfDay(EndA) > MinuteOfDay(StartB))
       /\ returned.value
          <=> doTimesOverlap(TimeString(StartB), TimeString(EndB),
                             TimeString(StartA), TimeString(EndA))
       /\ (MinuteOfDay(EndA) = MinuteOfDay(StartB) /\ MinuteOfDay(StartA) < MinuteOfDay(EndA)
             /\ MinuteOfDay(StartB) < MinuteOfDay(EndB))
          => ~returned.value

\* 09:00-10:00 and 10:00-11:00 were compared and do not overlap
C22_TouchingIntervalsCompared ==
    /\ lastOp.name = "doTimesOverlap"
    /\ lastOp.arg = << <<9, 0>>, <<10, 0>>, <<10, 0>>, <<11, 0>> >>
    /\ returned.value = FALSE

\* the zero-padded "HH:MM" string, written digit by digit
ZeroPadded(hm) ==
    << DigitChars[(hm[1] \div 10) + 1], DigitChars[(hm[1] % 10) + 1], ":",
       DigitChars[(hm[2] \div 10) + 1], DigitChars[(hm[2] % 10) + 1] >>

\* C23: a zero-padded "HH:MM" time of day, converted to minutes and back, is
\* the string it was.
C23_TimeRoundTrip ==
    lastOp.name = "minutesToTime" => returned.value = ZeroPadded(lastOp.arg)

\* 09:05, which needs padding in both fields, came back from the round trip
C23_PaddedTimeCameBack ==
    /\ lastOp.name = "minutesToTime"
    /\ lastOp.arg = <<9, 5>>
    /\ returned.value = <<"0", "9", ":", "0", "5">>


\* the anchor's start on the day of the listing plus the signed offset, or
\* the snooze timestamp of a snoozed or paused reminder that has one
ExpectedTrigger(entry) ==
    IF entry.reminder.status \in {Snoozed, Paused} /\ entry.reminder.snoozedUntil # NoTime
    THEN entry.reminder.snoozedUntil
    ELSE startOfDay(renderedAt) + timeToMinutes(entry.event.startTime)
         + entry.reminder.offsetMinutes

\* C24: the trigger time of a listed reminder before the DND step is its
\* snooze timestamp when it is snoozed or paused and has one, and otherwise
\* the anchor's start today plus the signed offset; when today's DND window
\* does not contain that time, the reminder is listed with exactly that time
\* and is not marked shifted.
C24_UnshiftedTriggerIsListed ==
    \A i \in 1..Len(activeReminders) :
       /\ Unshifted(activeReminders[i]) = ExpectedTrigger(activeReminders[i])
       /\ ~InsideTodaysDnd(ExpectedTrigger(activeReminders[i]))
          => /\ activeReminders[i].triggerTime = ExpectedTrigger(activeReminders[i])
             /\ activeReminders[i].shiftedReason = NotShifted


\* this step is the given action on an existing reminder
ActedOn(action) == IsReminderAction({action})

\* the start of today's DND window on today's date, NoTime without a window
TodaysDndStart ==
    LET k == DndIndex(dndWindows, todayDay(now))
    IN IF k = 0 THEN NoTime
       ELSE startOfDay(now) + timeToMinutes(dndWindows[k].startTime)

\* now + 3 hours, capped at 15 minutes before dndStart when there is one, and
\* now + 1 hour when that is not after now
LaterTarget(dndStart) ==
    LET capped == IF dndStart # NoTime /\ dndStart - 15 < now + 180
                  THEN dndStart - 15 ELSE now + 180
    IN IF capped <= now THEN now + 60 ELSE capped

\* the next start of today's DND window: today's, or tomorrow's once today's
\* has passed
NextDndStart ==
    IF TodaysDndStart # NoTime /\ TodaysDndStart < now
    THEN TodaysDndStart + MinutesPerDay ELSE TodaysDndStart

\* the reminder is snoozed until that time, which is after now, and one
\* "snoozed" is appended to its successHistory
SnoozedUntil(id, time) ==
    /\ After(id).status = Snoozed
    /\ After(id).snoozedUntil = time
    /\ After(id).snoozedUntil > now
    /\ After(id).successHistory = Append(Before(id).successHistory, "snoozed")

\* C25 as stated: "later today" snoozes the reminder until now + 3 hours,
\* capped at 15 minutes before the start of today's DND window on today's
\* date, and until now + 1 hour when the capped time is not after now.
C25_LaterCappedByTodaysStart ==
    [][ActedOn("later") => SnoozedUntil(lastOp'.eventId, LaterTarget(TodaysDndStart))]_vars

\* C25, amended: "later today" snoozes the reminder until now + 3 hours,
\* capped at 15 minutes before the next start of today's DND window (on
\* tomorrow's date once today's start has passed), and until now + 1 hour
\* when the capped time is not after now; snoozedUntil is after now and
\* "snoozed" is appended to successHistory.
C25_LaterCappedByNextStart ==
    [][ActedOn("later") => SnoozedUntil(lastOp'.eventId, LaterTarget(NextDndStart))]_vars

\* a reminder was sent to later today and the cap before the window applied
C25_LaterWasCapped ==
    /\ lastOp.name = "later"
    /\ \E i \in 1..Len(smartReminders) :
          /\ smartReminders[i].id = lastOp.eventId
          /\ smartReminders[i].status = Snoozed
          /\ smartReminders[i].snoozedUntil > now
          /\ smartReminders[i].snoozedUntil < now + 180
          /\ smartReminders[i].snoozedUntil = NextDndStart - 15


\* every reminder but the one with this id is what it was, at its place
OthersUnchanged(id) ==
    /\ Len(smartReminders') = Len(smartReminders)
    /\ \A i \in 1..Len(smartReminders) :
          smartReminders[i].id # id => smartReminders'[i] = smartReminders[i]

\* C26: snoozing a reminder for N minutes makes it Snoozed until now + N
\* minutes, appends N to the end of its snoozeHistory and "snoozed" to the end
\* of its successHistory, and leaves every other reminder unchanged.
C26_SnoozeForMinutes ==
    [][ActedOn("snooze") =>
          LET id == lastOp'.eventId
              N == lastOp'.arg
          IN /\ After(id).status = Snoozed
             /\ After(id).snoozedUntil = now + N
             /\ After(id).snoozeHistory = Append(Before(id).snoozeHistory, N)
             /\ After(id).successHistory = Append(Before(id).successHistory, "snoozed")
             /\ OthersUnchanged(id)
      ]_vars

\* reminder 1, snoozed for 10 minutes once before, was snoozed for 5 minutes
\* next to the locked reminder 2
C26_SnoozedForFive ==
    /\ lastOp.name = "snooze"
    /\ lastOp.eventId = 1
    /\ lastOp.arg = 5
    /\ Len(smartReminders) >= 2
    /\ smartReminders[1].status = Snoozed
    /\ smartReminders[1].snoozedUntil = now + 5
    /\ smartReminders[1].snoozeHistory = <<10, 5>>
    /\ smartReminders[2].status = Active


\* exploration is allowed for exactly the reminders that are not locked
ExplorationFollowsLock ==
    \A i \in 1..Len(smartReminders) :
       smartReminders[i].allowExploration = ~smartReminders[i].isLocked

\* C27: the lock toggle flips isLocked, sets allowExploration to the
\* complement of the new isLocked and changes nothing else; so after every
\* sequence of reminder actions, creations and undos, allowExploration of
\* every reminder is the complement of its isLocked.
C27_LockToggleKeepsExplorationOpposite ==
    /\ []ExplorationFollowsLock
    /\ [][ActedOn("toggle_lock") =>
             LET id == lastOp'.eventId
             IN /\ After(id) = [Before(id) EXCEPT !.isLocked = ~Before(id).isLocked,
                                                  !.allowExploration = Before(id).isLocked]
                /\ OthersUnchanged(id)
         ]_vars

\* the locked reminder 2 was unlocked, which allows exploration for it
C27_UnlockedAllowsExploration ==
    /\ lastOp.name = "toggle_lock"
    /\ lastOp.eventId = 2
    /\ Len(smartReminders) >= 2
    /\ ~smartReminders[2].isLocked
    /\ smartReminders[2].allowExploration


\* C28: reverting a reminder that is exploratory and has a stored original
\* offset gives it that offset, clears the exploratory flag and makes it
\* Active; reverting any other reminder leaves that reminder as it is.
C28_RevertRestoresOriginalOffset ==
    [][ActedOn("revert_exploration") =>
          LET id == lastOp'.eventId
          IN IF Before(id).isExploratory /\ Before(id).originalOffsetMinutes # NoOffset
             THEN /\ After(id).offsetMinutes = Before(id).originalOffsetMinutes
                  /\ ~After(id).isExploratory
                  /\ After(id).status = Active
             ELSE After(id) = Before(id)
      ]_vars

\* the experiment on reminder 1 was reverted to its offset of -20 after the
\* reminder had left the Active status by an earlier action
C28_RevertedAfterAnotherAction ==
    /\ lastOp.name = "revert_exploration"
    /\ lastOp.eventId = 1
    /\ smartReminders[1].offsetMinutes = -20
    /\ ~smartReminders[1].isExploratory
    /\ smartReminders[1].status = Active
    /\ Len(smartReminders[1].successHistory) = 3


\* actual duration divided by difficulty, in twentieths of a minute
Adjusted(r) == (r.actualDurationMinutes * 400) \div r.difficulty

\* the k-th record in the order of completion
ChronologicalAt(records, k) ==
    records[CHOOSE i \in 1..Len(records) :
               Cardinality({j \in 1..Len(records) :
                               \/ records[j].completedAt < records[i].completedAt
                               \/ records[j].completedAt = records[i].completedAt /\ j < i})
                  = k - 1]

\* the exponentially weighted moving average of the first k records in the
\* order of completion, seeded with the first, as a fraction of twentieths
RECURSIVE MovingAverage(_, _, _)
MovingAverage(records, alpha, k) ==
    IF k = 1 THEN Fraction(Adjusted(ChronologicalAt(records, 1)), 1)
    ELSE LET before == MovingAverage(records, alpha, k - 1)
         IN Fraction(alpha.a * Adjusted(ChronologicalAt(records, k)) * before.den
                        + (alpha.q - alpha.a) * before.num,
                     alpha.q * before.den)

\* max(5, round(0.5 * C + 0.5 * E)) for C = total adjusted duration / total
\* sub-steps * count and E the moving average: with f the whole part of
\* C + E, the rounded half of it is (f + 1) div 2
BlendedP50(records, count, alpha) ==
    LET total == sum([i \in 1..Len(records) |-> Adjusted(records[i])])
        subSteps == TotalSubSteps(records)
        E == MovingAverage(records, alpha, Len(records))
        f == (total * count * E.den + E.num * subSteps) \div (20 * subSteps * E.den)
    IN IF (f + 1) \div 2 < 5 THEN 5 ELSE (f + 1) \div 2

\* the estimate was computed from 5 records or more with sub-steps
IsBlendedEstimate ==
    /\ IsEstimate
    /\ Len(EstimatedCategory) >= 5
    /\ TotalSubSteps(EstimatedCategory) # 0

P50IsBlend ==
    IsBlendedEstimate
    => /\ ~returned.value.isNull
       /\ returned.value.p50 = BlendedP50(EstimatedCategory, lastOp.eventId, lastOp.arg)

\* six records of 50, 55, 60, 58, 62 and 57 minutes at difficulty 1.0 with 3
\* sub-steps each, asked for a chunk of 3 sub-steps
IsExampleEstimate ==
    /\ IsEstimate
    /\ lastOp.eventId = 3
    /\ Len(EstimatedCategory) = 6
    /\ [i \in 1..6 |-> ChronologicalAt(EstimatedCategory, i).actualDurationMinutes]
          = <<50, 55, 60, 58, 62, 57>>
    /\ \A i \in 1..6 : /\ EstimatedCategory[i].difficulty = Typical
                       /\ EstimatedCategory[i].subStepCount = 3

\* C29 as stated: from 5 records with sub-steps on, p50 is max(5, round(0.5 *
\* C + 0.5 * E)), C the adjusted duration per sub-step times the sub-step
\* count asked for, E the moving average of the adjusted durations in the
\* order of completion, seeded with the first; for the six example records
\* and a chunk of 3 sub-steps, p50 lies between 57 and 60.
C29_BlendAndExampleRange ==
    /\ P50IsBlend
    /\ IsExampleEstimate => returned.value.p50 \in 57..60

\* C29, amended: p50 is that blend; for the example records it is 58 at a
\* sensitivity of 0.5 and 56, below the range, at a sensitivity of 0.2.
C29_BlendAndExampleBySensitivity ==
    /\ P50IsBlend
    /\ (IsExampleEstimate /\ lastOp.arg = [a |-> 1, q |-> 2]) => returned.value.p50 = 58
    /\ (IsExampleEstimate /\ lastOp.arg = [a |-> 1, q |-> 5]) => returned.value.p50 = 56

\* the example was estimated at a sensitivity of 0.5
C29_ExampleAtHalf ==
    /\ IsExampleEstimate
    /\ lastOp.arg = [a |-> 1, q |-> 2]
    /\ returned.value.p50 = 58


----------------------------------------------------------------------------
\* C30

\* the list an entry of the change history belongs to, as it is now
ListOf(kind) == IF kind = "events" THEN scheduleEvents ELSE smartReminders

\* a step that records a change puts the list as it was before the step at
\* the head of the history, moves the older entries down by one and keeps
\* at most five
RecordsSnapshotFirst ==
    changeHistory' # changeHistory =>
        /\ Len(changeHistory') = (IF Len(changeHistory) < MaxChangeHistory
                                  THEN Len(changeHistory) + 1 ELSE MaxChangeHistory)
        /\ changeHistory'[1].snap = ListOf(changeHistory'[1].kind)
        /\ \A i \in 2..Len(changeHistory') : changeHistory'[i] = changeHistory[i - 1]

\* pressing Undo on entry k sets that entry's list to the entry's snapshot
\* and leaves the other list and the history alone
UndoRestoresSnapshot ==
    (steps' # steps /\ lastOp'.name = "undo") =>
        LET entry == changeHistory[lastOp'.eventId]
        IN /\ entry.kind = lastOp'.arg
           /\ changeHistory' = changeHistory
           /\ IF entry.kind = "events"
              THEN scheduleEvents' = entry.snap /\ smartReminders' = smartReminders
              ELSE smartReminders' = entry.snap /\ scheduleEvents' = scheduleEvents

\* C30: undo of a recorded change sets the affected list (anchors or
\* reminders) to exactly the snapshot taken just before that change, so that
\* right after the change it is an exact inverse and after later changes of
\* the same list it discards them too; the change history never holds more
\* than 5 entries and the newest is first
C30_UndoRestoresSnapshotOfCappedHistory ==
    /\ [](Len(changeHistory) <= MaxChangeHistory)
    /\ [][RecordsSnapshotFirst /\ UndoRestoresSnapshot]_vars

\* Undo was pressed on the third entry of a full history whose two newer
\* entries are changes of the same list: the list is back at the third
\* entry's snapshot, which is not the state the newer change started from
C30_UndoDiscardedLaterChanges ==
    /\ lastOp.name = "undo"
    /\ lastOp.eventId = 3
    /\ Len(changeHistory) = MaxChangeHistory
    /\ changeHistory[1].kind = changeHistory[3].kind
    /\ changeHistory[2].kind = changeHistory[3].kind
    /\ ListOf(changeHistory[3].kind) = changeHistory[3].snap
    /\ ListOf(changeHistory[3].kind) # changeHistory[2].snap

====
